---- MODULE Spec2Model ----
(***************************************************************************)
(* Light tracing sample generator of appleseed                             *)
(* (renderer/kernel/lighting/lighttracing/lighttracingsamplegenerator.cpp) *)
(* as a state machine.                                                     *)
(*                                                                         *)
(* Each generator instance g owns the members of                           *)
(* LightTracingSampleGenerator (m_rng, m_arena, m_light_sample_count,      *)
(* m_path_count, m_path_length), the sample vector of its base class, and  *)
(* the locals of the invocation in progress.  The scene, the camera, the   *)
(* light sampler, the BSDFs/EDFs and the tracer are collaborators: their   *)
(* answers are drawn from small sets.  Two instances that step together    *)
(* (mode "lock") receive the same answer whenever their sampling cursors   *)
(* are equal: the scene is fixed and the answers are functions of the      *)
(* random numbers only.                                                    *)
(*                                                                         *)
(* Numbers are fixed-point integers: a Spectrum is a record with three     *)
(* channels, probabilities are positive integers, a transmittance is 0 or  *)
(* 1.  Magnitudes are abstract; signs and zeros are exact.                 *)
(*                                                                         *)
(* SpecParams builds Parameters from a ParamArray; SpecAABB applies the    *)
(* operations of AABB3d that foundation/meta/tests/test_aabb.cpp tests to  *)
(* small boxes and to the fixtures of the tests.                           *)
(***************************************************************************)
EXTENDS Integers, Sequences, FiniteSets, Bags, TLC

\* ------------------------------------------------------------------ bounds
\* Invocations of generate_samples(sequence_index, samples) per instance.
MaxInvocations == 2
\* Largest configured max_iterations.
MaxIterations == 2
\* Largest configured max_path_length / rr_min_path_length.
MaxConfigLen == 1
\* Specular interfaces that enclose the lights of an enclosed scene.
ChainLength == 2
\* Largest coordinate of the points and boxes drawn.
MaxCoordinate == 1

\* --------------------------------------------------------------- constants
\* size_t(~0), the "unlimited" marker of Parameters::nz (31 bits here).
SizeMax == 2147483647
\* std::numeric_limits<double>::max()
NumericMax == 1000000
\* default of "rr_min_path_length"
DefaultRRMinPathLength == 3
\* default of "max_iterations"
DefaultMaxIterations == 1000

Gens == {1, 2}

None == [none |-> TRUE]

\* ScatteringMode::Mode
Absorption == "Absorption"
Diffuse == "Diffuse"
Glossy == "Glossy"
Specular == "Specular"
ScatteringModes == {Diffuse, Glossy, Specular}

\* PathVertex::m_bsdf of a surface without BSDF; a BSDF is named by the
\* mode it scatters in.
NoBSDF == "none"

\* ScatteringMode::has_glossy_or_specular
has_glossy_or_specular(mode) == mode \in {Glossy, Specular}

\* ---------------------------------------------------------------- Spectrum
\* A Spectrum is either stored as RGB or as spectral bands (three bands here).
Spectrum(rgb, a, b, c) == [is_rgb |-> rgb, v |-> <<a, b, c>>]

\* The values of a float are the finite ones, which stay below NumericMax
\* in magnitude, the two infinities and NaN.  NaN compares false with
\* x >= 0, as it does in the code.
Infinity == 2 * NumericMax

NaN == -3 * NumericMax

IsInfinite(x) == x = Infinity \/ x = -Infinity

IsFinite(x) == x # NaN /\ ~IsInfinite(x)

\* float * float
FMul(a, b) ==
    IF a = NaN \/ b = NaN THEN NaN
    ELSE IF IsInfinite(a) \/ IsInfinite(b)
    THEN IF a = 0 \/ b = 0 THEN NaN
         ELSE IF (a > 0) = (b > 0) THEN Infinity ELSE -Infinity
    ELSE a * b

\* A division that gives 0 when the divisor is 0
FDiv_guarded(a, b) == IF b = 0 THEN 0 ELSE a \div b

\* float / float: a division by zero gives an infinity, or NaN for 0 / 0
FDiv(a, b) ==
    IF a = NaN \/ b = NaN THEN NaN
    ELSE IF b = 0
    THEN IF a = 0 THEN NaN ELSE IF a > 0 THEN Infinity ELSE -Infinity
    ELSE IF IsInfinite(a)
    THEN IF IsInfinite(b) THEN NaN
         ELSE IF (a > 0) = (b > 0) THEN Infinity ELSE -Infinity
    ELSE IF IsInfinite(b) THEN 0
    ELSE a \div b

\* float + float
FAdd(a, b) ==
    IF a = NaN \/ b = NaN THEN NaN
    ELSE IF IsInfinite(a) /\ IsInfinite(b)
    THEN IF a = b THEN a ELSE NaN
    ELSE IF IsInfinite(a) THEN a
    ELSE IF IsInfinite(b) THEN b
    ELSE a + b

\* Spectrum *= scalar
SpectrumScale(s, k) == [s EXCEPT !.v = [i \in 1..3 |-> FMul(s.v[i], k)]]

\* Spectrum /= scalar
SpectrumDiv(s, k) == [s EXCEPT !.v = [i \in 1..3 |-> FDiv(s.v[i], k)]]

\* Spectrum *= Spectrum (component-wise; the result is RGB only if both are)
SpectrumMul(s, t) ==
    [is_rgb |-> s.is_rgb /\ t.is_rgb,
     v |-> [i \in 1..3 |-> FMul(s.v[i], t.v[i])]]

\* min_value(Spectrum)
min_value(s) ==
    CHOOSE m \in {s.v[i] : i \in 1..3} : \A i \in 1..3 : m <= s.v[i]

\* Spectrum::convert_to_rgb: the bands are weighted by the lighting
\* conditions of the frame and summed into the three primaries.
convert_to_rgb(s) ==
    <<FAdd(s.v[1], s.v[2]), FAdd(s.v[2], s.v[3]), s.v[3]>>

\* ------------------------------------------------------------- Parameters
\* nz leaving a zero as it is
nz_keeps_zero(x) == x

\* Parameters::nz
nz(x) == IF x = 0 THEN SizeMax ELSE x

\* Parameters::Parameters, from the configured values.
Parameters(ibl, caustics, max_iterations, max_path_length, rr_min_path_length, report_self_intersections) ==
    [m_enable_ibl |-> ibl,
     m_enable_caustics |-> caustics,
     m_max_iterations |-> max_iterations,
     m_report_self_intersections |-> report_self_intersections,
     m_max_path_length |-> nz(max_path_length),
     m_rr_min_path_length |-> nz(rr_min_path_length)]

\* ParamArray: each option is unset or holds a value.
Options ==
    {"enable_ibl", "enable_caustics", "max_iterations", "max_path_length",
     "rr_min_path_length", "report_self_intersections"}

Unset == None

Value(v) == [value |-> v]

\* ParamArray::get_optional(name, default)
get_optional(array, name, default) ==
    IF array[name] = Unset THEN default ELSE array[name].value

\* Parameters::Parameters(const ParamArray& params)
ParametersOf(array) ==
    Parameters(get_optional(array, "enable_ibl", TRUE),
               get_optional(array, "enable_caustics", TRUE),
               get_optional(array, "max_iterations", DefaultMaxIterations),
               get_optional(array, "max_path_length", 0),
               get_optional(array, "rr_min_path_length",
                            DefaultRRMinPathLength),
               get_optional(array, "report_self_intersections", FALSE))

VARIABLES
    param_array,            \* ParamArray given to the factory
    aabb,                   \* an AABB3d under test, with what it is used on
    abort_switch,           \* IAbortSwitch: has the abort signal been raised
    mode,                   \* how the instances are scheduled
    m_params,               \* Parameters, shared by all instances (factory)
    scene,                  \* what the scene contains
    pc,                     \* position of each instance
    m_rng,                  \* RNG state: number of draws since the seed
    m_arena,                \* live allocations in the scratch arena
    m_light_sample_count,
    m_path_count,
    m_path_length,          \* Population: the inserted values, in order
    samples,                \* SampleVector of the batch in progress
    invocations,            \* generate_samples(sequence_index, ..) calls made
    pending,                \* units of work the scheduler still has for it
    m_generator_index,      \* SampleGeneratorBase: index of the instance
    m_generator_count,      \* SampleGeneratorBase: number of instances
    m_sequence_index,       \* SampleGeneratorBase: next sequence index
    local,                  \* locals of generate_samples(sequence_index, ..)
    sampling_context,       \* SamplingContext of the invocation
    path_visitor,           \* PathVisitor of the particle being traced
    tracer,                 \* PathTracer::trace state of the particle
    buffer,                 \* GlobalSampleAccumulationBuffer
    emitted                 \* bag of every Sample each instance ever emitted

vars ==
    <<param_array, aabb, abort_switch, mode, m_params, scene, pc, m_rng, m_arena, m_light_sample_count,
      m_path_count, m_path_length, samples, invocations, pending,
      m_generator_index, m_generator_count, m_sequence_index, local, sampling_context, path_visitor, tracer, buffer, emitted>>

\* ------------------------------------------------------------ scheduling
\* The sets of instances that take a step together.  "solo": instance 1
\* alone; "free": the two instances interleave; "warm": instance 2 alone;
\* "lock": both instances step together on the same inputs.
Groups ==
    CASE mode = "solo" -> {{1}}
      [] mode = "free" -> {{g} : g \in Gens}
      [] mode = "warm" -> {{2}}
      [] mode = "lock" -> {Gens}

\* Sums of numbers and of bags, and the bag of a sequence
RECURSIVE SeqToBag(_)
SeqToBag(s) ==
    IF s = <<>> THEN EmptyBag ELSE SetToBag({Head(s)}) (+) SeqToBag(Tail(s))

RECURSIVE SumOver(_, _)
SumOver(f, S) ==
    IF S = {} THEN 0
    ELSE LET x == CHOOSE y \in S : TRUE IN f[x] + SumOver(f, S \ {x})

RECURSIVE BagSumOver(_, _)
BagSumOver(f, S) ==
    IF S = {} THEN EmptyBag
    ELSE LET x == CHOOSE y \in S : TRUE IN f[x] (+) BagSumOver(f, S \ {x})

\* f with the entries of the instances of G replaced by F(g)
Upd(f, G, F(_)) == [g \in Gens |-> IF g \in G THEN F(g) ELSE f[g]]

At(G, label) == \A g \in G : pc[g] = label

Goto(G, label) == pc' = Upd(pc, G, LAMBDA g : label)

\* ------------------------------------------------------- SamplingContext
\* SamplingContext(rng, mode, 0, sequence_index, sequence_index)
SamplingContext(g, sequence_index) ==
    [m_base_dimension |-> 0, m_dimension |-> 0,
     m_sample_count |-> sequence_index, m_instance |-> sequence_index]

\* SamplingContext::split_in_place(dimension, sample_count)
split_in_place(ctx, dimension, sample_count) ==
    [ctx EXCEPT !.m_base_dimension = @ + ctx.m_dimension,
                !.m_dimension = dimension,
                !.m_sample_count = sample_count]

\* SamplingContext::next2: one vector of m_dimension numbers is drawn and
\* the generator behind the context advances by one step.
next2(ctx) == [ctx EXCEPT !.m_instance = @ + 1]

\* split_in_place(dimension, 1) followed by next2()
Draw(ctx, dimension) == next2(split_in_place(ctx, dimension, 1))

\* What the random numbers seen by instance g depend on.
Cursor(g) == <<m_rng[g], sampling_context[g]>>

\* One random number generator advanced by the draws of every instance
advance_shared(rng, G, draws) ==
    [h \in Gens |-> rng[h] + SumOver(draws, G)]

\* m_rng is a member of the generator: the draws of an instance of G
\* advance its own random number generator.
advance(rng, G, draws) ==
    [h \in Gens |-> IF h \in G THEN rng[h] + draws[h] ELSE rng[h]]

\* The answers collaborators give to the instances of G: instances whose
\* cursors are equal see the same random numbers and so the same answer.
Answers(G, S) ==
    {a \in [G -> S] : \A g, h \in G : Cursor(g) = Cursor(h) => a[g] = a[h]}

\* The same, when the possible answers S(g) depend on what g asks about.
AnswersFor(G, U, S(_)) == {a \in Answers(G, U) : \A g \in G : a[g] \in S(g)}

\* ------------------------------------------------------------------ Sample
\* Sample as assembled by emit_sample: m_position and m_values[0..4]
Sample(position, rgb, alpha, distance) ==
    [m_position |-> position,
     m_values |-> <<rgb[1], rgb[2], rgb[3], alpha, distance>>]

\* ----------------------------------------------------------- collaborators
\* Values the emitters return: the lights of the scene are described by RGB
\* colors, its environment by a spectrum.
LightValues == {Spectrum(TRUE, 8, 0, 16)}

EnvironmentValues == {Spectrum(FALSE, 0, 8, 8)}

\* LightSampler::sample: an emitting triangle or a non-physical light,
\* with the probability density of the selection.
\* The sampling of a degenerate scene's emitters may answer with a zero
\* probability density or with a direction along the surface.
Densities == IF scene.degenerate THEN {0, 2} ELSE {2}

LightSamples == [m_triangle : BOOLEAN, m_probability : Densities]

\* EDF::sample on an emitting triangle: value, probability density and the
\* cosine between the sampled direction and the shading normal.  The
\* direction is sampled about the shading basis the EDF is given: it is not
\* below the surface.
EDFSamples ==
    [edf_value : LightValues, edf_prob : Densities,
     cos_on : IF scene.degenerate THEN {0, 1} ELSE {1}]

\* Light::sample of a non-physical light
LightEmissions == [value : LightValues, prob : Densities]

\* EnvironmentEDF::sample
EnvironmentSamples == [value : EnvironmentValues, prob : Densities]

\* Camera::connect_vertex: failure, or the image position, the importance
\* and camera_outgoing, given by its norm and by its dot product with the
\* shading normal at the vertex.
NoConnection ==
    [connected |-> FALSE, position |-> <<0, 0>>, dot_normal |-> 0,
     distance |-> 1, importance |-> 0]

\* In a plain scene every surface is diffuse, faces the camera and is seen
\* from it.
CameraConnections ==
    IF scene.plain
    THEN [connected : {TRUE}, position : {<<1, 1>>}, dot_normal : {-2},
          distance : {2}, importance : {1}]
    ELSE {NoConnection} \cup
         [connected : {TRUE}, position : {<<1, 1>>}, dot_normal : {-2, 0, 2},
          distance : {2}, importance : {1}]

\* Tracer::trace_between: 0 (occluded) or a non-zero transmittance
Transmissions == IF scene.plain THEN {1} ELSE {0, 1}

\* The lights of an enclosed scene cannot be seen from the camera.
LightTransmissions == IF scene.enclosed_lights THEN {0} ELSE Transmissions

\* BSDF::evaluate: value and probability density.  A specular BSDF is a
\* Dirac distribution: its density is 0 for any given pair of directions.
BSDFEvaluations ==
    [bsdf_value : {Spectrum(TRUE, 1, 2, 1)},
     bsdf_prob : IF scene.plain THEN {1} ELSE {0, 1}]

BSDFEvaluationsOf(bsdf) ==
    {e \in BSDFEvaluations : bsdf = Specular => e.bsdf_prob = 0}

\* ---------------------------------------------------------------- Init
\* The configurations explored leave report_self_intersections off, as it
\* is by default; SelfConfigurations are these with the option on or off.
Configurations ==
    {Parameters(ibl, caustics, it, len, rr, FALSE) :
        ibl \in BOOLEAN, caustics \in BOOLEAN,
        it \in 0 .. MaxIterations + ChainLength - 1,
        len \in 0 .. MaxConfigLen, rr \in 0 .. MaxConfigLen}

SelfConfigurations ==
    {[p EXCEPT !.m_report_self_intersections = b] :
        p \in Configurations, b \in BOOLEAN}

Scenes ==
    {s \in [has_lights : BOOLEAN, env_edf : BOOLEAN,
            enclosed_lights : BOOLEAN, plain : BOOLEAN,
            degenerate : {FALSE}] :
        /\ s.enclosed_lights => s.has_lights
        /\ s.enclosed_lights => ~s.plain}

DegenerateScenes == {[s EXCEPT !.degenerate = TRUE] : s \in Scenes}

NoLocal == [sequence_index |-> 0, stored_sample_count |-> 0,
            light_sample |-> None, particle |-> "none", emission |-> None,
            light_particle_flux |-> None, ret |-> 0, entry_size |-> 0]

\* A visitor, with what its last callback was, which collaborators it
\* queried and what they answered (kept until the engine goes on).
NoCallback == [callback |-> "none", queried |-> <<>>, camera |-> None,
               transmission |-> None, bsdf |-> None]

NoVisitor == [m_initial_flux |-> None, m_sample_count |-> 0,
              last |-> NoCallback]

NoTracer == [m_rr_min_path_length |-> 0, m_max_path_length |-> 0,
             m_max_iterations |-> 0, iterations |-> 0, path_length |-> 0,
             prev_mode |-> Specular, vertex |-> None,
             parent_shading_point |-> FALSE, accept |-> None,
             terminal |-> "none"]

\* The ParamArrays that set every option, and those that may leave options
\* unset or set a length to its default or to the largest size value
ParamArrays(Bools, Iterations, Lengths) ==
    [enable_ibl : Bools, enable_caustics : Bools,
     max_iterations : Iterations,
     max_path_length : Lengths, rr_min_path_length : Lengths,
     report_self_intersections : Bools]

Values(S) == {Value(v) : v \in S}

ConfiguredArrays ==
    ParamArrays(Values(BOOLEAN),
                Values(0 .. MaxIterations + ChainLength - 1),
                Values(0 .. MaxConfigLen))

AnyArrays ==
    ParamArrays(Values(BOOLEAN) \cup {Unset},
                Values(0 .. MaxIterations) \cup {Unset},
                Values(0 .. MaxConfigLen) \cup {Unset}
                    \cup Values({DefaultRRMinPathLength, SizeMax}))

\* No AABB is under test.
NoAABB == None

\* The members of the instances as their constructors leave them
Members(m, work, index, count) ==
    /\ abort_switch = FALSE
    /\ mode = m
    /\ pc = [g \in Gens |-> "idle"]
    /\ m_rng = [g \in Gens |-> 0]
    /\ m_arena = [g \in Gens |-> 0]
    /\ m_light_sample_count = [g \in Gens |-> 0]
    /\ m_path_count = [g \in Gens |-> 0]
    /\ m_path_length = [g \in Gens |-> <<>>]
    /\ samples = [g \in Gens |-> <<>>]
    /\ invocations = [g \in Gens |-> 0]
    /\ pending = work
    /\ m_generator_index = index
    /\ m_generator_count = count
    /\ m_sequence_index = index
    /\ local = [g \in Gens |-> NoLocal]
    /\ sampling_context = [g \in Gens |-> None]
    /\ path_visitor = [g \in Gens |-> NoVisitor]
    /\ tracer = [g \in Gens |-> NoTracer]
    /\ buffer = [samples |-> EmptyBag, sample_count |-> 0]
    /\ emitted = [g \in Gens |-> EmptyBag]

\* The instances the factory created from its ParamArray, in a scene
InitState(m, work, index, count) ==
    /\ Members(m, work, index, count)
    /\ m_params \in Configurations
    /\ param_array \in {array \in ConfiguredArrays : ParametersOf(array) = m_params}
    /\ scene \in Scenes
    /\ aabb = NoAABB

\* An invocation traces two particles.
TwoParticles ==
    scene.has_lights /\ scene.env_edf /\ m_params.m_enable_ibl

\* Walks of one step in a plain scene, with one particle per invocation.
\* The two length limits cannot act on such walks and are left unlimited.
ShortWalks ==
    /\ scene.plain
    /\ m_params.m_max_iterations = 1
    /\ m_params.m_max_path_length = SizeMax
    /\ m_params.m_rr_min_path_length = SizeMax
    /\ ~TwoParticles

\* The scheduler has n units of work for instance 1 and none for the others.
Work(n) == [g \in Gens |-> IF g = 1 THEN n ELSE 0]

\* Instance g is created with generator index g - 1.
Indices == [g \in Gens |-> g - 1]

\* The runs explored.  Sequences of invocations are short walks.  One
\* invocation is explored in a scene whose lights are enclosed, with walks
\* long enough to leave the enclosure, and in the other scenes with walks of
\* up to MaxIterations steps, of one step when two particles are traced.
Scenario(n) ==
    IF n > 1 THEN ShortWalks
    ELSE /\ ~scene.plain
         /\ IF scene.enclosed_lights
            THEN m_params.m_max_iterations = MaxIterations + ChainLength - 1
            ELSE m_params.m_max_iterations <= MaxIterations
         /\ TwoParticles => m_params.m_max_iterations <= 1

\* One instance, with n units of work.
Init ==
    \E n \in 1 .. MaxInvocations :
        /\ InitState("solo", Work(n), Indices, Cardinality(Gens))
        /\ Scenario(n)

\* ------------------------------------------------------------ PathVisitor
\* PathVisitor::emit_sample: the Sample pushed on m_samples.
emit_sample(position_ndc, distance, radiance) ==
    LET linear_rgb == IF radiance.is_rgb THEN radiance.v
                      ELSE convert_to_rgb(radiance)
    IN  Sample(position_ndc, linear_rgb, 1, distance)

\* What a visitor callback did: its name, the collaborators it queried, in
\* order, with their answers (None when not queried), and the Sample it
\* emitted (None if it emitted nothing).
Visit(callback, queried, cam, transmission, eval, sample) ==
    [callback |-> callback,
     queried |-> queried,
     camera |-> IF Len(queried) >= 1 THEN cam ELSE None,
     transmission |-> IF Len(queried) >= 2 THEN [value |-> transmission]
                      ELSE None,
     bsdf |-> IF Len(queried) >= 3 THEN eval ELSE None,
     sample |-> sample]

\* accept_scattering rejecting the specular mode only
accept_scattering_specular_only(params, prev_mode, next_mode) ==
    IF ~params.m_enable_caustics /\ next_mode = Specular
    THEN FALSE
    ELSE TRUE

\* accept_scattering without the test of m_enable_caustics
accept_scattering_always(params, prev_mode, next_mode) == TRUE

\* PathVisitor::accept_scattering
accept_scattering(params, prev_mode, next_mode) ==
    IF ~params.m_enable_caustics /\ has_glossy_or_specular(next_mode)
    THEN FALSE
    ELSE TRUE

\* visit_area_light_vertex keeping the vertices seen edge-on
visit_area_light_vertex_edge_on(light_particle_flux, cam, transmission) ==
    LET name == "visit_area_light_vertex"
        cos_alpha == -cam.dot_normal
    IN  IF ~cam.connected
        THEN Visit(name, <<"camera">>, cam, None, None, None)
        ELSE IF cos_alpha < 0
        THEN Visit(name, <<"camera">>, cam, None, None, None)
        ELSE IF transmission = 0
        THEN Visit(name, <<"camera", "tracer">>, cam, transmission, None, None)
        ELSE Visit(name, <<"camera", "tracer">>, cam, transmission, None,
                   emit_sample(
                       cam.position,
                       cam.distance,
                       SpectrumScale(
                           light_particle_flux,
                           transmission * (cos_alpha \div cam.distance)
                                        * cam.importance)))

\* visit_area_light_vertex without the test of cos_alpha
visit_area_light_vertex_no_cos_test(light_particle_flux, cam, transmission) ==
    LET name == "visit_area_light_vertex"
        cos_alpha == -cam.dot_normal
    IN  IF ~cam.connected
        THEN Visit(name, <<"camera">>, cam, None, None, None)
        ELSE IF transmission = 0
        THEN Visit(name, <<"camera", "tracer">>, cam, transmission, None, None)
        ELSE Visit(name, <<"camera", "tracer">>, cam, transmission, None,
                   emit_sample(
                       cam.position,
                       cam.distance,
                       SpectrumScale(
                           light_particle_flux,
                           transmission * (cos_alpha \div cam.distance)
                                        * cam.importance)))

\* PathVisitor::visit_area_light_vertex
visit_area_light_vertex(light_particle_flux, cam, transmission) ==
    LET name == "visit_area_light_vertex"
        cos_alpha == -cam.dot_normal
    IN  IF ~cam.connected
        THEN Visit(name, <<"camera">>, cam, None, None, None)
        ELSE IF cos_alpha <= 0
        THEN Visit(name, <<"camera">>, cam, None, None, None)
        ELSE IF transmission = 0
        THEN Visit(name, <<"camera", "tracer">>, cam, transmission, None, None)
        ELSE Visit(name, <<"camera", "tracer">>, cam, transmission, None,
                   emit_sample(
                       cam.position,
                       cam.distance,
                       SpectrumScale(
                           light_particle_flux,
                           transmission * (cos_alpha \div cam.distance)
                                        * cam.importance)))

\* visit_non_physical_light_vertex ignoring the vertices that are almost
\* occluded
visit_non_physical_light_vertex_threshold(light_particle_flux, cam, transmission) ==
    LET name == "visit_non_physical_light_vertex"
    IN  IF ~cam.connected
        THEN Visit(name, <<"camera">>, cam, None, None, None)
        ELSE IF transmission <= 1
        THEN Visit(name, <<"camera", "tracer">>, cam, transmission, None, None)
        ELSE Visit(name, <<"camera", "tracer">>, cam, transmission, None,
                   emit_sample(
                       cam.position,
                       cam.distance,
                       SpectrumScale(light_particle_flux,
                                     transmission * cam.importance)))

\* PathVisitor::visit_non_physical_light_vertex
visit_non_physical_light_vertex(light_particle_flux, cam, transmission) ==
    LET name == "visit_non_physical_light_vertex"
    IN  IF ~cam.connected
        THEN Visit(name, <<"camera">>, cam, None, None, None)
        ELSE IF transmission = 0
        THEN Visit(name, <<"camera", "tracer">>, cam, transmission, None, None)
        ELSE Visit(name, <<"camera", "tracer">>, cam, transmission, None,
                   emit_sample(
                       cam.position,
                       cam.distance,
                       SpectrumScale(light_particle_flux,
                                     transmission * cam.importance)))

\* visit_vertex without the test of m_bsdf
visit_vertex_without_bsdf_test(m_initial_flux, vertex, cam, transmission, eval) ==
    LET name == "visit_vertex"
    IN  IF ~cam.connected
        THEN Visit(name, <<"camera">>, cam, None, None, None)
        ELSE Visit(name, <<"camera">>, cam, None, None, None)

\* visit_vertex evaluating the BSDF of the occluded vertices as well
visit_vertex_late_occlusion_test(m_initial_flux, vertex, cam, transmission, eval) ==
    LET name == "visit_vertex"
    IN  IF vertex.m_bsdf = NoBSDF
        THEN Visit(name, <<>>, None, None, None, None)
        ELSE IF ~cam.connected
        THEN Visit(name, <<"camera">>, cam, None, None, None)
        ELSE IF cam.dot_normal >= 0
        THEN Visit(name, <<"camera">>, cam, None, None, None)
        ELSE IF eval.bsdf_prob = 0 \/ transmission = 0
        THEN Visit(name, <<"camera", "tracer", "bsdf">>, cam, transmission,
                   eval, None)
        ELSE Visit(name, <<"camera", "tracer", "bsdf">>, cam, transmission,
                   eval,
                   emit_sample(
                       cam.position,
                       cam.distance,
                       SpectrumScale(
                           SpectrumMul(
                               SpectrumMul(m_initial_flux, vertex.m_throughput),
                               eval.bsdf_value),
                           transmission * cam.importance)))

\* visit_vertex rejecting the vertices whose direction toward the camera lies
\* on the side of the shading normal
visit_vertex_same_side(m_initial_flux, vertex, cam, transmission, eval) ==
    LET name == "visit_vertex"
    IN  IF vertex.m_bsdf = NoBSDF
        THEN Visit(name, <<>>, None, None, None, None)
        ELSE IF ~cam.connected
        THEN Visit(name, <<"camera">>, cam, None, None, None)
        ELSE IF cam.dot_normal <= 0
        THEN Visit(name, <<"camera">>, cam, None, None, None)
        ELSE IF transmission = 0
        THEN Visit(name, <<"camera", "tracer">>, cam, transmission, None, None)
        ELSE IF eval.bsdf_prob = 0
        THEN Visit(name, <<"camera", "tracer", "bsdf">>, cam, transmission,
                   eval, None)
        ELSE Visit(name, <<"camera", "tracer", "bsdf">>, cam, transmission,
                   eval,
                   emit_sample(
                       cam.position,
                       cam.distance,
                       SpectrumScale(
                           SpectrumMul(
                               SpectrumMul(m_initial_flux, vertex.m_throughput),
                               eval.bsdf_value),
                           transmission * cam.importance)))

\* visit_vertex without the test of bsdf_prob
visit_vertex_no_prob_test(m_initial_flux, vertex, cam, transmission, eval) ==
    LET name == "visit_vertex"
    IN  IF vertex.m_bsdf = NoBSDF
        THEN Visit(name, <<>>, None, None, None, None)
        ELSE IF ~cam.connected
        THEN Visit(name, <<"camera">>, cam, None, None, None)
        ELSE IF cam.dot_normal >= 0
        THEN Visit(name, <<"camera">>, cam, None, None, None)
        ELSE IF transmission = 0
        THEN Visit(name, <<"camera", "tracer">>, cam, transmission, None, None)
        ELSE Visit(name, <<"camera", "tracer", "bsdf">>, cam, transmission,
                   eval,
                   emit_sample(
                       cam.position,
                       cam.distance,
                       SpectrumScale(
                           SpectrumMul(
                               SpectrumMul(m_initial_flux, vertex.m_throughput),
                               eval.bsdf_value),
                           transmission * cam.importance)))

\* PathVisitor::visit_vertex
visit_vertex(m_initial_flux, vertex, cam, transmission, eval) ==
    LET name == "visit_vertex"
    IN  IF vertex.m_bsdf = NoBSDF
        THEN Visit(name, <<>>, None, None, None, None)
        ELSE IF ~cam.connected
        THEN Visit(name, <<"camera">>, cam, None, None, None)
        ELSE IF cam.dot_normal >= 0
        THEN Visit(name, <<"camera">>, cam, None, None, None)
        ELSE IF transmission = 0
        THEN Visit(name, <<"camera", "tracer">>, cam, transmission, None, None)
        ELSE IF eval.bsdf_prob = 0
        THEN Visit(name, <<"camera", "tracer", "bsdf">>, cam, transmission,
                   eval, None)
        ELSE Visit(name, <<"camera", "tracer", "bsdf">>, cam, transmission,
                   eval,
                   emit_sample(
                       cam.position,
                       cam.distance,
                       SpectrumScale(
                           SpectrumMul(
                               SpectrumMul(m_initial_flux, vertex.m_throughput),
                               eval.bsdf_value),
                           transmission * cam.importance)))

\* PathVisitor::visit_environment
visit_environment(vertex) ==
    Visit("visit_environment", <<>>, None, None, None, None)

\* What is kept of a callback once it has returned
Returned(v) == [x \in DOMAIN NoCallback |-> v[x]]

\* emit_sample putting the new Sample at the front of m_samples
Emit_at_front(G, v) ==
    /\ samples' = Upd(samples, G, LAMBDA g :
            IF v[g].sample = None THEN samples[g]
            ELSE <<v[g].sample>> \o samples[g])
    /\ emitted' = Upd(emitted, G, LAMBDA g :
            IF v[g].sample = None THEN emitted[g]
            ELSE emitted[g] (+) SetToBag({v[g].sample}))
    /\ path_visitor' = Upd(path_visitor, G, LAMBDA g :
            [path_visitor[g] EXCEPT
                !.m_sample_count = IF v[g].sample = None THEN @ ELSE @ + 1,
                !.last = Returned(v[g])])

\* The effect of a visitor callback of the instances of G on m_samples and
\* on the visitor's m_sample_count; v[g] is what the callback of g did.
Emit(G, v) ==
    /\ samples' = Upd(samples, G, LAMBDA g :
            IF v[g].sample = None THEN samples[g]
            ELSE Append(samples[g], v[g].sample))
    /\ emitted' = Upd(emitted, G, LAMBDA g :
            IF v[g].sample = None THEN emitted[g]
            ELSE emitted[g] (+) SetToBag({v[g].sample}))
    /\ path_visitor' = Upd(path_visitor, G, LAMBDA g :
            [path_visitor[g] EXCEPT
                !.m_sample_count = IF v[g].sample = None THEN @ ELSE @ + 1,
                !.last = Returned(v[g])])

\* ------------------------------------------------- batch entry point
\* generate_samples(sample_count, buffer, abort_switch) without the reset of
\* m_light_sample_count
generate_samples_batch_keeps_count(G) ==
    /\ At(G, "idle")
    /\ ~abort_switch
    /\ \A g \in G : pending[g] > 0
    /\ samples' = Upd(samples, G, LAMBDA g : <<>>)
    /\ local' = Upd(local, G, LAMBDA g : NoLocal)
    /\ Goto(G, "batch")
    /\ UNCHANGED <<param_array, aabb, abort_switch, mode, m_params, scene, m_rng, m_arena, m_path_count,
                   m_light_sample_count, m_path_length, invocations, pending,
                   m_generator_index, m_generator_count, m_sequence_index,
                   sampling_context, path_visitor, tracer, buffer, emitted>>

\* generate_samples(sample_count, buffer, abort_switch), up to the loop of
\* SampleGeneratorBase::generate_samples, which starts on an empty vector.
generate_samples_batch(G) ==
    /\ At(G, "idle")
    /\ ~abort_switch
    /\ \A g \in G : pending[g] > 0
    /\ m_light_sample_count' = Upd(m_light_sample_count, G, LAMBDA g : 0)
    /\ samples' = Upd(samples, G, LAMBDA g : <<>>)
    /\ local' = Upd(local, G, LAMBDA g : NoLocal)
    /\ Goto(G, "batch")
    /\ UNCHANGED <<param_array, aabb, abort_switch, mode, m_params, scene, m_rng, m_arena, m_path_count,
                   m_path_length, invocations, pending, m_generator_index,
                   m_generator_count, m_sequence_index, sampling_context,
                   path_visitor, tracer, buffer, emitted>>

\* GlobalSampleAccumulationBuffer::store_samples and increment_sample_count
Stored(buf, batch) == [buf EXCEPT !.samples = @ (+) batch]

Incremented(buf, n) == [buf EXCEPT !.sample_count = @ + n]

\* The base class's generate_samples(sample_count, buffer, abort_switch)
\* stores the samples of the batch in the buffer.
store_samples(G) ==
    /\ At(G, "batch")
    /\ buffer' = Stored(buffer,
            BagSumOver([g \in G |-> SeqToBag(samples[g])], G))
    /\ Goto(G, "stored")
    /\ UNCHANGED <<param_array, aabb, abort_switch, mode, m_params, scene, m_rng, m_arena,
                   m_light_sample_count, m_path_count, m_path_length, samples,
                   invocations, pending, m_generator_index, m_generator_count,
                   m_sequence_index, local, sampling_context, path_visitor,
                   tracer, emitted>>

\* The end of generate_samples(sample_count, buffer, abort_switch): the
\* number of light samples is added to the buffer's counter.
increment_sample_count(G) ==
    /\ At(G, "stored")
    /\ buffer' = Incremented(buffer,
            SumOver([g \in G |-> m_light_sample_count[g]], G))
    /\ Goto(G, "idle")
    /\ UNCHANGED <<param_array, aabb, abort_switch, mode, m_params, scene, m_rng, m_arena,
                   m_light_sample_count, m_path_count, m_path_length, samples,
                   invocations, pending, m_generator_index, m_generator_count,
                   m_sequence_index, local, sampling_context, path_visitor,
                   tracer, emitted>>

\* reset() seeding the random number generator rather than
\* default-constructing it
reset_seeds_rng(G) ==
    /\ At(G, "idle")
    /\ m_rng' = Upd(m_rng, G, LAMBDA g : 1)
    /\ m_sequence_index' = Upd(m_sequence_index, G,
            LAMBDA g : m_generator_index[g])
    /\ UNCHANGED <<param_array, aabb, abort_switch, mode, m_params, scene, pc, m_arena, m_light_sample_count,
                   m_path_count, m_path_length, samples, invocations, pending, m_generator_index,
                   m_generator_count, local,
                   sampling_context, path_visitor, tracer, buffer, emitted>>

\* reset() without the new random number generator
reset_keeps_rng(G) ==
    /\ At(G, "idle")
    /\ m_sequence_index' = Upd(m_sequence_index, G,
            LAMBDA g : m_generator_index[g])
    /\ UNCHANGED <<param_array, aabb, abort_switch, mode, m_params, scene, pc, m_rng, m_arena,
                   m_light_sample_count, m_path_count, m_path_length, samples,
                   invocations, pending, m_generator_index, m_generator_count,
                   local, sampling_context, path_visitor, tracer, buffer,
                   emitted>>

\* reset() that also clears the number of paths
reset_clears_path_count(G) ==
    /\ At(G, "idle")
    /\ m_rng' = Upd(m_rng, G, LAMBDA g : 0)
    /\ m_sequence_index' = Upd(m_sequence_index, G,
            LAMBDA g : m_generator_index[g])
    /\ m_path_count' = Upd(m_path_count, G, LAMBDA g : 0)
    /\ UNCHANGED <<param_array, aabb, abort_switch, mode, m_params, scene, pc, m_arena,
                   m_light_sample_count, m_path_length, samples, invocations,
                   pending, m_generator_index, m_generator_count, local,
                   sampling_context, path_visitor, tracer, buffer, emitted>>

\* reset()
reset(G) ==
    /\ At(G, "idle")
    /\ m_rng' = Upd(m_rng, G, LAMBDA g : 0)
    /\ m_sequence_index' = Upd(m_sequence_index, G,
            LAMBDA g : m_generator_index[g])
    /\ UNCHANGED <<param_array, aabb, abort_switch, mode, m_params, scene, pc, m_arena, m_light_sample_count,
                   m_path_count, m_path_length, samples, invocations, pending, m_generator_index,
                   m_generator_count, local,
                   sampling_context, path_visitor, tracer, buffer, emitted>>

\* ------------------------------- generate_samples(sequence_index, samples)
\* generate_samples tracing an environment particle whether m_enable_ibl is
\* set or not
AfterLight_without_enable_ibl ==
    IF scene.env_edf THEN "environment_sample" ELSE "return"

\* Where generate_samples goes after the light particle.
AfterLight ==
    IF m_params.m_enable_ibl /\ scene.env_edf
    THEN "environment_sample" ELSE "return"

\* generate_samples(sequence_index, samples) without m_arena.clear()
generate_samples_keeps_arena(G) ==
    /\ At(G, "batch")
    /\ ~abort_switch
    /\ \A g \in G : pending[g] > 0
    /\ sampling_context' = Upd(sampling_context, G,
            LAMBDA g : SamplingContext(g, m_sequence_index[g]))
    /\ local' = Upd(local, G, LAMBDA g :
            [NoLocal EXCEPT !.sequence_index = m_sequence_index[g],
                            !.stored_sample_count = 0,
                            !.entry_size = Len(samples[g])])
    /\ m_sequence_index' = Upd(m_sequence_index, G,
            LAMBDA g : m_sequence_index[g] + m_generator_count)
    /\ invocations' = Upd(invocations, G, LAMBDA g : invocations[g] + 1)
    /\ pending' = Upd(pending, G, LAMBDA g : pending[g] - 1)
    /\ Goto(G, IF scene.has_lights THEN "light_sample" ELSE AfterLight)
    /\ UNCHANGED <<param_array, aabb, abort_switch, mode, m_params, scene, m_rng, m_arena, m_light_sample_count,
                   m_path_count, m_path_length, samples, m_generator_index,
                   m_generator_count, path_visitor, tracer, buffer, emitted>>

\* generate_samples(sequence_index, samples), up to the first particle
generate_samples(G) ==
    /\ At(G, "batch")
    /\ ~abort_switch
    /\ \A g \in G : pending[g] > 0
    /\ m_arena' = Upd(m_arena, G, LAMBDA g : 0)
    /\ sampling_context' = Upd(sampling_context, G,
            LAMBDA g : SamplingContext(g, m_sequence_index[g]))
    /\ local' = Upd(local, G, LAMBDA g :
            [NoLocal EXCEPT !.sequence_index = m_sequence_index[g],
                            !.stored_sample_count = 0,
                            !.entry_size = Len(samples[g])])
    /\ m_sequence_index' = Upd(m_sequence_index, G,
            LAMBDA g : m_sequence_index[g] + m_generator_count)
    /\ invocations' = Upd(invocations, G, LAMBDA g : invocations[g] + 1)
    /\ pending' = Upd(pending, G, LAMBDA g : pending[g] - 1)
    /\ Goto(G, IF scene.has_lights THEN "light_sample" ELSE AfterLight)
    /\ UNCHANGED <<param_array, aabb, abort_switch, mode, m_params, scene, m_rng, m_light_sample_count,
                   m_path_count, m_path_length, samples, m_generator_index,
                   m_generator_count, path_visitor, tracer, buffer, emitted>>

\* The end of generate_samples(sequence_index, samples) counting only the
\* invocations that produced samples
generate_samples_return_counts_samples(G) ==
    /\ At(G, "return")
    /\ m_light_sample_count' =
          Upd(m_light_sample_count, G, LAMBDA g :
              IF local[g].stored_sample_count > 0
              THEN m_light_sample_count[g] + 1
              ELSE m_light_sample_count[g])
    /\ local' = Upd(local, G, LAMBDA g :
          [NoLocal EXCEPT !.sequence_index = local[g].sequence_index,
                          !.entry_size = local[g].entry_size,
                          !.ret = local[g].stored_sample_count])
    /\ sampling_context' = Upd(sampling_context, G, LAMBDA g : None)
    /\ Goto(G, "batch")
    /\ UNCHANGED <<param_array, aabb, abort_switch, mode, m_params, scene, m_rng, m_arena, m_path_count,
                   m_path_length, samples, invocations, pending, m_generator_index,
                   m_generator_count, m_sequence_index, path_visitor, tracer,
                   buffer, emitted>>

\* The end of generate_samples(sequence_index, samples)
generate_samples_return(G) ==
    /\ At(G, "return")
    /\ m_light_sample_count' =
          Upd(m_light_sample_count, G, LAMBDA g : m_light_sample_count[g] + 1)
    /\ local' = Upd(local, G, LAMBDA g :
          [NoLocal EXCEPT !.sequence_index = local[g].sequence_index,
                          !.entry_size = local[g].entry_size,
                          !.ret = local[g].stored_sample_count])
    /\ sampling_context' = Upd(sampling_context, G, LAMBDA g : None)
    /\ Goto(G, "batch")
    /\ UNCHANGED <<param_array, aabb, abort_switch, mode, m_params, scene, m_rng, m_arena, m_path_count,
                   m_path_length, samples, invocations, pending, m_generator_index,
                   m_generator_count, m_sequence_index, path_visitor, tracer,
                   buffer, emitted>>

\* generate_light_sample: the light sources are sampled with a 4-dimensional
\* draw and the sample is dispatched on its kind.
generate_light_sample(G) ==
    /\ At(G, "light_sample")
    /\ \E a \in Answers(G, LightSamples) :
        /\ local' = Upd(local, G, LAMBDA g :
                [local[g] EXCEPT !.light_sample = a[g]])
        /\ pc' = Upd(pc, G, LAMBDA g :
                IF a[g].m_triangle THEN "emitting_triangle"
                ELSE "non_physical_light")
    /\ sampling_context' = Upd(sampling_context, G,
            LAMBDA g : Draw(sampling_context[g], 4))
    /\ m_rng' = advance(m_rng, G, [g \in G |-> 1])
    /\ UNCHANGED <<param_array, aabb, abort_switch, mode, m_params, scene, m_arena, m_light_sample_count,
                   m_path_count, m_path_length, samples, invocations, pending, m_generator_index,
                   m_generator_count, m_sequence_index,
                   path_visitor, tracer, buffer, emitted>>

\* PathTracer's constructor keeps the three limits it is given.
PathTracerType(rr_min_path_length, max_path_length, max_iterations) ==
    [NoTracer EXCEPT !.m_rr_min_path_length = rr_min_path_length,
                     !.m_max_path_length = max_path_length,
                     !.m_max_iterations = max_iterations]

\* A path tracer given m_max_path_length as its number of iterations
path_tracer_length_as_iterations(params) ==
    PathTracerType(params.m_rr_min_path_length,
                   params.m_max_path_length,
                   params.m_max_path_length)

\* A path tracer given its two length limits in the other order
path_tracer_lengths_swapped(params) ==
    PathTracerType(params.m_max_path_length,
                   params.m_rr_min_path_length,
                   params.m_max_iterations)

\* A path tracer that applies Russian roulette from the first vertex on
path_tracer_without_rr_minimum(params) ==
    PathTracerType(0, params.m_max_path_length, params.m_max_iterations)

\* The path tracer the three particle generators build from m_params
path_tracer(params) ==
    PathTracerType(params.m_rr_min_path_length,
                   params.m_max_path_length,
                   params.m_max_iterations)

\* The path length of the first vertex of a walk: the light ray has depth 0
\* and visit_vertex takes the depth of the ray that reached the vertex to be
\* the vertex's path length - 1.
FirstPathLength == 1

\* PathTracer::trace entered with no parent shading point, whatever the
\* caller built
StartTrace_without_parent(parent_shading_point) ==
    [path_tracer(m_params) EXCEPT
        !.path_length = FirstPathLength,
        !.parent_shading_point = FALSE]

\* PathTracer::trace is entered on the first vertex of the path.
StartTrace(parent_shading_point) ==
    [path_tracer(m_params) EXCEPT
        !.path_length = FirstPathLength,
        !.parent_shading_point = parent_shading_point]

\* The initial particle weight computed with the direction into the surface
initial_flux_inward(light_sample, emission) ==
    SpectrumDiv(
        SpectrumScale(emission.edf_value, -emission.cos_on),
        light_sample.m_probability * emission.edf_prob)

\* The initial particle weight of generate_emitting_triangle_sample
initial_flux(light_sample, emission) ==
    SpectrumDiv(
        SpectrumScale(emission.edf_value, emission.cos_on),
        light_sample.m_probability * emission.edf_prob)

\* generate_emitting_triangle_sample going from the construction of the path
\* tracer straight to the walk
generate_emitting_triangle_sample_no_light_vertex(G) ==
    /\ At(G, "emitting_triangle")
    /\ \E a \in Answers(G, EDFSamples) :
        /\ m_arena' = Upd(m_arena, G, LAMBDA g :
                m_arena[g] + 1)
        /\ path_visitor' = Upd(path_visitor, G, LAMBDA g :
                [NoVisitor EXCEPT !.m_initial_flux =
                    initial_flux(local[g].light_sample, a[g])])
        /\ local' = Upd(local, G, LAMBDA g :
                [local[g] EXCEPT
                    !.particle = "triangle",
                    !.emission = a[g],
                    !.light_particle_flux =
                        SpectrumDiv(a[g].edf_value,
                                    local[g].light_sample.m_probability)])
    /\ sampling_context' = Upd(sampling_context, G,
            LAMBDA g : Draw(Draw(sampling_context[g], 2), 1))
    /\ m_rng' = advance(m_rng, G, [g \in G |-> 2])
    /\ tracer' = Upd(tracer, G, LAMBDA g : StartTrace(TRUE))
    /\ Goto(G, "trace")
    /\ UNCHANGED <<param_array, aabb, abort_switch, mode, m_params, scene, m_light_sample_count, m_path_count,
                   m_path_length, samples, invocations, pending, m_generator_index,
                   m_generator_count, m_sequence_index, buffer, emitted>>

\* generate_emitting_triangle_sample, up to the construction of the visitor
\* and of the path tracer.
generate_emitting_triangle_sample(G) ==
    /\ At(G, "emitting_triangle")
    /\ \E a \in Answers(G, EDFSamples) :
        /\ m_arena' = Upd(m_arena, G, LAMBDA g :
                m_arena[g] + 1)
        /\ path_visitor' = Upd(path_visitor, G, LAMBDA g :
                [NoVisitor EXCEPT !.m_initial_flux =
                    initial_flux(local[g].light_sample, a[g])])
        /\ local' = Upd(local, G, LAMBDA g :
                [local[g] EXCEPT
                    !.particle = "triangle",
                    !.emission = a[g],
                    !.light_particle_flux =
                        SpectrumDiv(a[g].edf_value,
                                    local[g].light_sample.m_probability)])
    /\ sampling_context' = Upd(sampling_context, G,
            LAMBDA g : Draw(Draw(sampling_context[g], 2), 1))
    /\ m_rng' = advance(m_rng, G, [g \in G |-> 2])
    /\ tracer' = Upd(tracer, G, LAMBDA g : StartTrace(TRUE))
    /\ Goto(G, "area_light_vertex")
    /\ UNCHANGED <<param_array, aabb, abort_switch, mode, m_params, scene, m_light_sample_count, m_path_count,
                   m_path_length, samples, invocations, pending, m_generator_index,
                   m_generator_count, m_sequence_index, buffer, emitted>>

\* generate_non_physical_light_sample, up to the construction of the visitor
\* and of the path tracer.
generate_non_physical_light_sample(G) ==
    /\ At(G, "non_physical_light")
    /\ \E a \in Answers(G, LightEmissions) :
        /\ path_visitor' = Upd(path_visitor, G, LAMBDA g :
                [NoVisitor EXCEPT !.m_initial_flux =
                    SpectrumDiv(
                        a[g].value,
                        local[g].light_sample.m_probability * a[g].prob)])
        /\ local' = Upd(local, G, LAMBDA g :
                [local[g] EXCEPT
                    !.particle = "light",
                    !.emission = a[g],
                    !.light_particle_flux =
                        SpectrumDiv(a[g].value,
                                    local[g].light_sample.m_probability)])
    /\ sampling_context' = Upd(sampling_context, G,
            LAMBDA g : Draw(Draw(sampling_context[g], 2), 1))
    /\ m_rng' = advance(m_rng, G, [g \in G |-> 2])
    /\ tracer' = Upd(tracer, G, LAMBDA g : StartTrace(FALSE))
    /\ Goto(G, "non_physical_light_vertex")
    /\ UNCHANGED <<param_array, aabb, abort_switch, mode, m_params, scene, m_arena, m_light_sample_count,
                   m_path_count, m_path_length, samples, invocations, pending, m_generator_index,
                   m_generator_count, m_sequence_index, buffer,
                   emitted>>

\* generate_environment_sample drawing the ray time first
generate_environment_sample_time_first(G) ==
    /\ At(G, "environment_sample")
    /\ \E a \in Answers(G, EnvironmentSamples) :
        /\ path_visitor' = Upd(path_visitor, G, LAMBDA g :
                [NoVisitor EXCEPT !.m_initial_flux =
                    SpectrumDiv(a[g].value, 1 * a[g].prob)])
        /\ local' = Upd(local, G, LAMBDA g :
                [local[g] EXCEPT !.particle = "environment",
                                 !.emission = a[g],
                                 !.light_particle_flux = None])
    /\ sampling_context' = Upd(sampling_context, G,
            LAMBDA g : Draw(Draw(Draw(sampling_context[g], 1), 2), 2))
    /\ m_rng' = advance(m_rng, G, [g \in G |-> 3])
    /\ tracer' = Upd(tracer, G, LAMBDA g : StartTrace(FALSE))
    /\ Goto(G, "trace")
    /\ UNCHANGED <<param_array, aabb, abort_switch, mode, m_params, scene, m_arena, m_light_sample_count,
                   m_path_count, m_path_length, samples, invocations, pending, m_generator_index,
                   m_generator_count, m_sequence_index, buffer,
                   emitted>>

\* generate_environment_sample, up to the construction of the visitor and of
\* the path tracer.  m_disk_point_prob is 1 / (Pi * radius^2), taken as 1.
generate_environment_sample(G) ==
    /\ At(G, "environment_sample")
    /\ \E a \in Answers(G, EnvironmentSamples) :
        /\ path_visitor' = Upd(path_visitor, G, LAMBDA g :
                [NoVisitor EXCEPT !.m_initial_flux =
                    SpectrumDiv(a[g].value, 1 * a[g].prob)])
        /\ local' = Upd(local, G, LAMBDA g :
                [local[g] EXCEPT !.particle = "environment",
                                 !.emission = a[g],
                                 !.light_particle_flux = None])
    /\ sampling_context' = Upd(sampling_context, G,
            LAMBDA g : Draw(Draw(Draw(sampling_context[g], 2), 2), 1))
    /\ m_rng' = advance(m_rng, G, [g \in G |-> 3])
    /\ tracer' = Upd(tracer, G, LAMBDA g : StartTrace(FALSE))
    /\ Goto(G, "trace")
    /\ UNCHANGED <<param_array, aabb, abort_switch, mode, m_params, scene, m_arena, m_light_sample_count,
                   m_path_count, m_path_length, samples, invocations, pending, m_generator_index,
                   m_generator_count, m_sequence_index, buffer,
                   emitted>>

\* Camera::connect_vertex draws the point on the lens from the sampling
\* context it is given.
Connect(G) ==
    /\ sampling_context' = Upd(sampling_context, G,
            LAMBDA g : Draw(sampling_context[g], 2))
    /\ m_rng' = advance(m_rng, G, [g \in G |-> 1])

\* The light vertex of an emitting triangle is handled before the walk.
area_light_vertex(G) ==
    /\ At(G, "area_light_vertex")
    /\ \E cam \in Answers(G, CameraConnections),
          transmission \in Answers(G, LightTransmissions) :
        Emit(G, [g \in G |->
            visit_area_light_vertex(
                local[g].light_particle_flux, cam[g], transmission[g])])
    /\ Connect(G)
    /\ Goto(G, "trace")
    /\ UNCHANGED <<param_array, aabb, abort_switch, mode, m_params, scene, m_arena, m_light_sample_count,
                   m_path_count, m_path_length, invocations, pending, m_generator_index,
                   m_generator_count, m_sequence_index, local, tracer,
                   buffer>>

\* The light vertex of a non-physical light is handled before the walk.
non_physical_light_vertex(G) ==
    /\ At(G, "non_physical_light_vertex")
    /\ \E cam \in Answers(G, CameraConnections),
          transmission \in Answers(G, LightTransmissions) :
        Emit(G, [g \in G |->
            visit_non_physical_light_vertex(
                local[g].light_particle_flux, cam[g], transmission[g])])
    /\ Connect(G)
    /\ Goto(G, "trace")
    /\ UNCHANGED <<param_array, aabb, abort_switch, mode, m_params, scene, m_arena, m_light_sample_count,
                   m_path_count, m_path_length, invocations, pending, m_generator_index,
                   m_generator_count, m_sequence_index, local, tracer,
                   buffer>>

\* ------------------------------------------------------------- PathTracer
\* Intersector::trace: no hit, or a hit on a surface without BSDF or with
\* a diffuse, a glossy or a specular one.  self tells a hit, at a distance
\* of about 0, on the surface the ray starts from.
NoHit == [hit |-> FALSE, m_bsdf |-> NoBSDF, self |-> FALSE]

Intersections ==
    {NoHit} \cup
    [hit : {TRUE},
     m_bsdf : IF scene.plain THEN {Diffuse} ELSE {NoBSDF} \cup ScatteringModes,
     self : BOOLEAN]

\* The ray of the walk of instance g starts on the emitting surface: it is
\* the light ray of an emitting-triangle particle.
OnEmitter(g) == local[g].particle = "triangle" /\ tracer[g].iterations = 0

\* Intersector::trace(ray, shading_point, parent_shading_point): a hit on
\* the surface a ray starts from is excluded when the intersector is given
\* the shading point of that surface, unless it was created to report
\* self-intersections.
SelfIntersections(g) ==
    IF /\ OnEmitter(g)
       /\ \/ m_params.m_report_self_intersections
          \/ ~tracer[g].parent_shading_point
    THEN BOOLEAN ELSE {FALSE}

\* In a scene whose lights are enclosed by ChainLength specular interfaces,
\* the first ChainLength surfaces a light particle meets are specular.
IntersectionsOf(g) ==
    IF scene.enclosed_lights /\ local[g].particle # "environment"
       /\ tracer[g].path_length < FirstPathLength + ChainLength
    THEN {x \in Intersections :
            x.hit /\ x.m_bsdf = Specular /\ x.self \in SelfIntersections(g)}
    ELSE {x \in Intersections : x.self \in SelfIntersections(g)}

\* The throughput of the path at the vertex is the engine's.
PathThroughputs == {Spectrum(TRUE, 2, 1, 0)}

\* BSDF::sample: the scattering mode and the probability density
BSDFSamples ==
    IF scene.plain
    THEN {[mode |-> Diffuse, prob |-> 1]}
    ELSE {[mode |-> Absorption, prob |-> 0]} \cup
         [mode : ScatteringModes, prob : {0, 1}]

\* A BSDF scatters in its own mode or absorbs.
BSDFSamplesOf(bsdf) ==
    {x \in BSDFSamples : x.mode \in {Absorption, bsdf}}

\* The walk stops in the terminal state t.
Terminate(tr, t) == [tr EXCEPT !.terminal = t, !.vertex = None]

\* One intersection test of PathTracer::trace for the tracer state tr and
\* the answer a of the intersector: the walk stops when it has spent its
\* iterations or when the ray leaves the scene; a hit becomes the PathVertex
\* handed to visit_vertex.
Intersect(tr, a, throughput) ==
    IF tr.iterations >= tr.m_max_iterations
    THEN Terminate(tr, "depth-limited")
    ELSE IF ~a.hit
    THEN Terminate([tr EXCEPT !.iterations = @ + 1, !.accept = None],
                   "escaped")
    ELSE [tr EXCEPT !.iterations = @ + 1,
                    !.accept = None,
                    !.vertex = [m_bsdf |-> a.m_bsdf,
                                self |-> a.self,
                                m_throughput |-> throughput,
                                m_path_length |-> tr.path_length]]

trace_intersect(G) ==
    /\ At(G, "trace")
    /\ \E a \in AnswersFor(G, Intersections, IntersectionsOf),
          throughput \in Answers(G, PathThroughputs) :
        /\ tracer' = Upd(tracer, G, LAMBDA g :
                Intersect(tracer[g], a[g], throughput[g]))
        /\ path_visitor' = Upd(path_visitor, G, LAMBDA g :
                [path_visitor[g] EXCEPT !.last =
                    IF tracer'[g].terminal = "escaped"
                    THEN Returned(visit_environment(None))
                    ELSE NoCallback])
        /\ m_arena' = Upd(m_arena, G, LAMBDA g :
                IF tracer'[g].terminal = "none" THEN m_arena[g] + 1
                ELSE m_arena[g])
        /\ pc' = Upd(pc, G, LAMBDA g :
                IF tracer'[g].terminal = "none" THEN "visit_vertex"
                ELSE "trace_done")
    /\ UNCHANGED <<param_array, aabb, abort_switch, mode, m_params, scene, m_rng, m_light_sample_count,
                   m_path_count, m_path_length, samples, invocations, pending,
                   m_generator_index, m_generator_count, m_sequence_index,
                   local, sampling_context, buffer, emitted>>

\* The visitor is shown the vertex.
trace_visit_vertex(G) ==
    /\ At(G, "visit_vertex")
    /\ \E cam \in Answers(G, CameraConnections),
          transmission \in Answers(G, Transmissions),
          eval \in AnswersFor(G, BSDFEvaluations,
                LAMBDA g : BSDFEvaluationsOf(tracer[g].vertex.m_bsdf)) :
        Emit(G, [g \in G |->
            visit_vertex(path_visitor[g].m_initial_flux, tracer[g].vertex,
                         cam[g], transmission[g], eval[g])])
    /\ sampling_context' = Upd(sampling_context, G, LAMBDA g :
            IF tracer[g].vertex.m_bsdf # NoBSDF THEN Draw(sampling_context[g], 2)
            ELSE sampling_context[g])
    /\ m_rng' = advance(m_rng, G, [g \in G |->
            IF tracer[g].vertex.m_bsdf # NoBSDF THEN 1 ELSE 0])
    /\ Goto(G, "scatter")
    /\ UNCHANGED <<param_array, aabb, abort_switch, mode, m_params, scene, m_arena, m_light_sample_count,
                   m_path_count, m_path_length, invocations, pending,
                   m_generator_index, m_generator_count, m_sequence_index,
                   local, tracer, buffer>>

\* A call of the visitor's accept_scattering, with its result
AcceptCall(params, prev_mode, next_mode) ==
    [prev_mode |-> prev_mode, next_mode |-> next_mode,
     result |-> accept_scattering(params, prev_mode, next_mode)]

\* The rest of one step of the walk asking the visitor before it looks at
\* what the BSDF sample is
Scatter_asks_first(params, tr, bsdf, rr_survives) ==
    IF tr.vertex.m_bsdf = NoBSDF
    THEN Terminate(tr, "absorbed")
    ELSE LET call == AcceptCall(params, tr.prev_mode, bsdf.mode)
             asked == [tr EXCEPT !.accept = call]
         IN  IF bsdf.mode = Absorption \/ bsdf.prob = 0
             THEN Terminate(asked, "absorbed")
             ELSE IF ~call.result
             THEN Terminate(asked, "rejected")
             ELSE IF tr.path_length >= tr.m_rr_min_path_length /\ ~rr_survives
             THEN Terminate(asked, "killed")
             ELSE IF tr.path_length >= tr.m_max_path_length
             THEN Terminate([asked EXCEPT !.prev_mode = bsdf.mode,
                                          !.parent_shading_point = FALSE],
                            "depth-limited")
             ELSE [asked EXCEPT !.path_length = @ + 1,
                                !.prev_mode = bsdf.mode,
                                !.vertex = None,
                                !.parent_shading_point = FALSE]

\* The rest of one step of the walk, for the tracer state tr: the BSDF is
\* sampled; absorption or a zero probability ends the walk; the visitor may
\* reject the scattering mode; Russian roulette applies from
\* rr_min_path_length on; the path grows by one and the walk goes on unless
\* the vertex is at max_path_length.
Scatter(params, tr, bsdf, rr_survives) ==
    IF tr.vertex.m_bsdf = NoBSDF \/ bsdf.mode = Absorption \/ bsdf.prob = 0
    THEN Terminate(tr, "absorbed")
    ELSE LET call == AcceptCall(params, tr.prev_mode, bsdf.mode)
             asked == [tr EXCEPT !.accept = call]
         IN  IF ~call.result
             THEN Terminate(asked, "rejected")
             ELSE IF tr.path_length >= tr.m_rr_min_path_length /\ ~rr_survives
             THEN Terminate(asked, "killed")
             ELSE IF tr.path_length >= tr.m_max_path_length
             THEN Terminate([asked EXCEPT !.prev_mode = bsdf.mode,
                                          !.parent_shading_point = FALSE],
                            "depth-limited")
             ELSE [asked EXCEPT !.path_length = @ + 1,
                                !.prev_mode = bsdf.mode,
                                !.vertex = None,
                                !.parent_shading_point = FALSE]

\* The draws of one scattering step: one for the BSDF sample when there is
\* a BSDF, one for Russian roulette when it applies.
ScatterDraws(params, tr, bsdf) ==
    IF tr.vertex.m_bsdf = NoBSDF THEN 0
    ELSE IF bsdf.mode = Absorption \/ bsdf.prob = 0 THEN 1
    ELSE IF ~accept_scattering(params, tr.prev_mode, bsdf.mode) THEN 1
    ELSE IF tr.path_length >= tr.m_rr_min_path_length THEN 2
    ELSE 1

trace_scatter(G) ==
    /\ At(G, "scatter")
    /\ \E bsdf \in AnswersFor(G, BSDFSamples,
                LAMBDA g : BSDFSamplesOf(tracer[g].vertex.m_bsdf)),
          rr_survives \in Answers(G, BOOLEAN) :
        /\ tracer' = Upd(tracer, G, LAMBDA g :
                Scatter(m_params, tracer[g], bsdf[g], rr_survives[g]))
        /\ m_rng' = advance(m_rng, G, [g \in G |->
                ScatterDraws(m_params, tracer[g], bsdf[g])])
        /\ sampling_context' = Upd(sampling_context, G, LAMBDA g :
                IF ScatterDraws(m_params, tracer[g], bsdf[g]) = 0
                THEN sampling_context[g]
                ELSE IF ScatterDraws(m_params, tracer[g], bsdf[g]) = 1
                THEN Draw(sampling_context[g], 3)
                ELSE Draw(Draw(sampling_context[g], 3), 1))
    /\ path_visitor' = Upd(path_visitor, G, LAMBDA g :
            [path_visitor[g] EXCEPT !.last = NoCallback])
    /\ pc' = Upd(pc, G, LAMBDA g :
            IF tracer'[g].terminal = "none" THEN "trace" ELSE "trace_done")
    /\ UNCHANGED <<param_array, aabb, abort_switch, mode, m_params, scene, m_arena, m_light_sample_count,
                   m_path_count, m_path_length, samples, invocations, pending,
                   m_generator_index, m_generator_count, m_sequence_index,
                   local, buffer, emitted>>

\* generate_samples keeping only what the last particle generator returned
stored_sample_count_overwritten(stored_sample_count, returned) == returned

\* A particle generator that gives up when the abort signal is raised: it
\* returns without updating the path statistics.
update_path_statistics_unless_aborted(G) ==
    /\ At(G, "trace_done")
    /\ m_path_count' = Upd(m_path_count, G, LAMBDA g :
            IF abort_switch THEN m_path_count[g] ELSE m_path_count[g] + 1)
    /\ m_path_length' = Upd(m_path_length, G, LAMBDA g :
            IF abort_switch THEN m_path_length[g]
            ELSE Append(m_path_length[g], tracer[g].path_length))
    /\ local' = Upd(local, G, LAMBDA g :
            [local[g] EXCEPT
                !.stored_sample_count = @ + path_visitor[g].m_sample_count,
                !.light_sample = None,
                !.light_particle_flux = None])
    /\ path_visitor' = Upd(path_visitor, G, LAMBDA g : NoVisitor)
    /\ tracer' = Upd(tracer, G, LAMBDA g : NoTracer)
    /\ pc' = Upd(pc, G, LAMBDA g :
            IF local[g].particle = "environment" THEN "return"
            ELSE AfterLight)
    /\ UNCHANGED <<param_array, aabb, abort_switch, mode, m_params, scene, m_rng, m_arena,
                   m_light_sample_count, samples, invocations, pending,
                   m_generator_index, m_generator_count, m_sequence_index,
                   sampling_context, buffer, emitted>>

\* A particle generator that samples and traces its particle again when the
\* walk retained no sample
update_path_statistics_retry(G) ==
    /\ At(G, "trace_done")
    /\ m_path_count' = Upd(m_path_count, G, LAMBDA g : m_path_count[g] + 1)
    /\ m_path_length' = Upd(m_path_length, G, LAMBDA g :
            Append(m_path_length[g], tracer[g].path_length))
    /\ local' = Upd(local, G, LAMBDA g :
            [local[g] EXCEPT
                !.stored_sample_count = @ + path_visitor[g].m_sample_count,
                !.light_sample = None,
                !.light_particle_flux = None])
    /\ path_visitor' = Upd(path_visitor, G, LAMBDA g : NoVisitor)
    /\ tracer' = Upd(tracer, G, LAMBDA g : NoTracer)
    /\ pc' = Upd(pc, G, LAMBDA g :
            IF path_visitor[g].m_sample_count = 0
            THEN IF local[g].particle = "environment"
                 THEN "environment_sample" ELSE "light_sample"
            ELSE IF local[g].particle = "environment" THEN "return"
                 ELSE AfterLight)
    /\ UNCHANGED <<param_array, aabb, abort_switch, mode, m_params, scene, m_rng, m_arena,
                   m_light_sample_count, samples, invocations, pending,
                   m_generator_index, m_generator_count, m_sequence_index,
                   sampling_context, buffer, emitted>>

\* generate_samples giving the next particle a SamplingContext of its own
update_path_statistics_own_context(G) ==
    /\ At(G, "trace_done")
    /\ m_path_count' = Upd(m_path_count, G, LAMBDA g : m_path_count[g] + 1)
    /\ m_path_length' = Upd(m_path_length, G, LAMBDA g :
            Append(m_path_length[g], tracer[g].path_length))
    /\ local' = Upd(local, G, LAMBDA g :
            [local[g] EXCEPT
                !.stored_sample_count = @ + path_visitor[g].m_sample_count,
                !.light_sample = None,
                !.light_particle_flux = None])
    /\ path_visitor' = Upd(path_visitor, G, LAMBDA g : NoVisitor)
    /\ tracer' = Upd(tracer, G, LAMBDA g : NoTracer)
    /\ pc' = Upd(pc, G, LAMBDA g :
            IF local[g].particle = "environment" THEN "return"
            ELSE AfterLight)
    /\ sampling_context' = Upd(sampling_context, G, LAMBDA g :
            SamplingContext(g, local[g].sequence_index))
    /\ UNCHANGED <<param_array, aabb, abort_switch, mode, m_params, scene, m_rng, m_arena,
                   m_light_sample_count, samples, invocations, pending,
                   m_generator_index, m_generator_count, m_sequence_index,
                   buffer, emitted>>

\* A particle generator that records the number of bounces of the path
update_path_statistics_bounces(G) ==
    /\ At(G, "trace_done")
    /\ m_path_count' = Upd(m_path_count, G, LAMBDA g : m_path_count[g] + 1)
    /\ m_path_length' = Upd(m_path_length, G, LAMBDA g :
            Append(m_path_length[g], tracer[g].path_length - 1))
    /\ local' = Upd(local, G, LAMBDA g :
            [local[g] EXCEPT
                !.stored_sample_count = @ + path_visitor[g].m_sample_count,
                !.light_sample = None,
                !.light_particle_flux = None])
    /\ path_visitor' = Upd(path_visitor, G, LAMBDA g : NoVisitor)
    /\ tracer' = Upd(tracer, G, LAMBDA g : NoTracer)
    /\ pc' = Upd(pc, G, LAMBDA g :
            IF local[g].particle = "environment" THEN "return"
            ELSE AfterLight)
    /\ UNCHANGED <<param_array, aabb, abort_switch, mode, m_params, scene, m_rng, m_arena,
                   m_light_sample_count, samples, invocations, pending,
                   m_generator_index, m_generator_count, m_sequence_index,
                   sampling_context, buffer, emitted>>

\* generate_samples adds what a particle generator returns to its count.
stored_sample_count_after(stored_sample_count, returned) ==
    stored_sample_count + returned

\* The end of generate_emitting_triangle_sample,
\* generate_non_physical_light_sample and generate_environment_sample: the
\* path statistics are updated and the visitor's sample count is returned
\* to generate_samples, which adds it to stored_sample_count.
update_path_statistics(G) ==
    /\ At(G, "trace_done")
    /\ m_path_count' = Upd(m_path_count, G, LAMBDA g : m_path_count[g] + 1)
    /\ m_path_length' = Upd(m_path_length, G, LAMBDA g :
            Append(m_path_length[g], tracer[g].path_length))
    /\ local' = Upd(local, G, LAMBDA g :
            [local[g] EXCEPT
                !.stored_sample_count =
                    stored_sample_count_after(
                        @, path_visitor[g].m_sample_count),
                !.light_sample = None,
                !.light_particle_flux = None])
    /\ path_visitor' = Upd(path_visitor, G, LAMBDA g : NoVisitor)
    /\ tracer' = Upd(tracer, G, LAMBDA g :
            NoTracer)
    /\ pc' = Upd(pc, G, LAMBDA g :
            IF local[g].particle = "environment" THEN "return"
            ELSE AfterLight)
    /\ UNCHANGED <<param_array, aabb, abort_switch, mode, m_params, scene, m_rng, m_arena,
                   m_light_sample_count, samples, invocations, pending, m_generator_index,
                   m_generator_count, m_sequence_index,
                   sampling_context, buffer, emitted>>

\* ------------------------------------------------------------------ Next
Next ==
    \/ \E G \in Groups : generate_samples_batch(G)
    \/ \E G \in Groups : generate_samples(G)
    \/ \E G \in Groups : generate_light_sample(G)
    \/ \E G \in Groups : generate_emitting_triangle_sample(G)
    \/ \E G \in Groups : generate_non_physical_light_sample(G)
    \/ \E G \in Groups : area_light_vertex(G)
    \/ \E G \in Groups : non_physical_light_vertex(G)
    \/ \E G \in Groups : generate_environment_sample(G)
    \/ \E G \in Groups : trace_intersect(G)
    \/ \E G \in Groups : trace_visit_vertex(G)
    \/ \E G \in Groups : trace_scatter(G)
    \/ \E G \in Groups : update_path_statistics(G)
    \/ \E G \in Groups : generate_samples_return(G)
    \/ \E G \in Groups : store_samples(G)
    \/ \E G \in Groups : increment_sample_count(G)
    \/ \E G \in Groups : reset(G)

Spec == Init /\ [][Next]_vars

\* ------------------------------------------------------- the abort signal
\* The abort signal is raised, at any moment.  The scheduler and the loop of
\* the base class poll it between units of work.
raise_abort ==
    /\ ~abort_switch
    /\ abort_switch' = TRUE
    /\ UNCHANGED <<param_array, aabb, mode, m_params, scene, pc, m_rng, m_arena,
                   m_light_sample_count, m_path_count, m_path_length, samples,
                   invocations, pending, m_generator_index, m_generator_count,
                   m_sequence_index, local, sampling_context, path_visitor,
                   tracer, buffer, emitted>>

NextAbort == Next \/ raise_abort

\* The abort signal is explored on walks whose path length is not limited;
\* they stop at the bound on their iterations.
InitAbort == Init /\ m_params.m_max_path_length = SizeMax

SpecAbort == InitAbort /\ [][NextAbort]_vars

\* ------------------------------------------------- degenerate emitters
\* Sequences of invocations of one particle each, with walks of one step,
\* in the plain scenes whose emitters are degenerate.
InitEmitters ==
    \E n \in 1 .. MaxInvocations :
        /\ Members("solo", Work(n), Indices, Cardinality(Gens))
        /\ m_params \in Configurations
        /\ param_array \in
                {array \in ConfiguredArrays : ParametersOf(array) = m_params}
        /\ scene \in DegenerateScenes
        /\ aabb = NoAABB
        /\ ShortWalks

SpecEmitters == InitEmitters /\ [][Next]_vars

\* ------------------------------------------------- self-intersections
\* Sequences of invocations of one particle each, with walks of one step,
\* in the plain scenes, with report_self_intersections on or off.
InitSelf ==
    \E n \in 1 .. MaxInvocations :
        /\ Members("solo", Work(n), Indices, Cardinality(Gens))
        /\ m_params \in SelfConfigurations
        /\ param_array \in
                {array \in ConfiguredArrays : ParametersOf(array) = m_params}
        /\ scene \in Scenes
        /\ aabb = NoAABB
        /\ ShortWalks

SpecSelf == InitSelf /\ [][Next]_vars

\* ------------------------------------------------------ Russian roulette
\* The ParamArrays that leave rr_min_path_length unset or set it to 0 or to
\* a minimum that walks reach after their first vertex, with
\* max_path_length set to 0.
RouletteArrays ==
    {array \in ParamArrays(Values(BOOLEAN),
                           Values(0 .. MaxIterations + ChainLength - 1),
                           Values(0 .. MaxConfigLen + 1) \cup {Unset}) :
        /\ array.max_path_length = Value(0)
        /\ array.report_self_intersections = Value(FALSE)}

\* One invocation of an instance created from such a ParamArray.
InitRoulette ==
    /\ Members("solo", Work(1), Indices, Cardinality(Gens))
    /\ param_array \in RouletteArrays
    /\ m_params = ParametersOf(param_array)
    /\ scene \in Scenes
    /\ aabb = NoAABB
    /\ Scenario(1)

SpecRoulette == InitRoulette /\ [][Next]_vars

\* A generator that is given the processor goes on.
FairSpecAbort == SpecAbort /\ WF_vars(Next)

\* ------------------------------------------------------ the configuration
\* A scene with nothing in it
EmptyScene ==
    [has_lights |-> FALSE, env_edf |-> FALSE, enclosed_lights |-> FALSE,
     plain |-> TRUE, degenerate |-> FALSE]

\* The factory holds a ParamArray and has not created its generators yet.
InitParams ==
    /\ Members("solo", Work(0), Indices, Cardinality(Gens))
    /\ param_array \in AnyArrays
    /\ m_params = None
    /\ scene = EmptyScene
    /\ aabb = NoAABB

\* LightTracingSampleGeneratorFactory::create: the constructor of the
\* generator builds its Parameters from the factory's ParamArray.
create ==
    /\ m_params = None
    /\ m_params' = ParametersOf(param_array)
    /\ UNCHANGED <<param_array, aabb, abort_switch, mode, scene, pc, m_rng,
                   m_arena, m_light_sample_count, m_path_count,
                   m_path_length, samples, invocations, pending,
                   m_generator_index, m_generator_count, m_sequence_index,
                   local, sampling_context, path_visitor, tracer, buffer,
                   emitted>>

SpecParams == InitParams /\ [][create]_vars

\* ================================================================== AABB3d
\* An axis-aligned bounding box in three dimensions, as test_aabb.cpp uses
\* it.  min is the largest and max the lowest representable number on every
\* axis of an invalid box.
Axes == 1 .. 3

Vector3(x, y, z) == <<x, y, z>>

AABB3(min, max) == [min |-> min, max |-> max]

\* AABB3d::invalid()
invalid ==
    AABB3([d \in Axes |-> NumericMax], [d \in Axes |-> -NumericMax])

\* is_valid() that takes a box without extent to be invalid
is_valid_strict(bbox) == \A d \in Axes : bbox.min[d] < bbox.max[d]

\* AABB::is_valid()
is_valid(bbox) == \A d \in Axes : bbox.min[d] <= bbox.max[d]

\* AABB::invalidate()
invalidate(bbox) ==
    AABB3([d \in Axes |-> NumericMax], [d \in Axes |-> -NumericMax])

\* insert(v) extending the box on one side only
insert_one_side(bbox, v) ==
    AABB3([d \in Axes |-> IF v[d] < bbox.min[d] THEN v[d] ELSE bbox.min[d]],
          [d \in Axes |-> IF v[d] < bbox.min[d] THEN bbox.max[d]
                          ELSE IF v[d] > bbox.max[d] THEN v[d]
                          ELSE bbox.max[d]])

\* AABB::insert(const VectorType& v)
insert(bbox, v) ==
    AABB3([d \in Axes |-> IF v[d] < bbox.min[d] THEN v[d] ELSE bbox.min[d]],
          [d \in Axes |-> IF v[d] > bbox.max[d] THEN v[d] ELSE bbox.max[d]])

\* AABB::insert(const AABBType& b)
insert_bbox(bbox, b) ==
    AABB3([d \in Axes |-> IF b.min[d] < bbox.min[d] THEN b.min[d]
                          ELSE bbox.min[d]],
          [d \in Axes |-> IF b.max[d] > bbox.max[d] THEN b.max[d]
                          ELSE bbox.max[d]])

\* overlap(a, b) that takes boxes that only touch to be apart
overlap_open(a, b) ==
    \A d \in Axes : a.min[d] < b.max[d] /\ a.max[d] > b.min[d]

\* AABB::overlap(a, b)
overlap(a, b) ==
    \A d \in Axes : ~(a.min[d] > b.max[d] \/ a.max[d] < b.min[d])

\* Bit d - 1 of i is set.
Bit(i, d) == (i \div (2 ^ (d - 1))) % 2 = 1

\* compute_corners writing one corner too many
compute_corners_nine(bbox, corners) ==
    [i \in DOMAIN corners |->
        [d \in Axes |-> IF Bit(i, d) THEN bbox.max[d] ELSE bbox.min[d]]]

\* AABB::compute_corners(VectorType corners[]): the 2^3 corners
compute_corners(bbox, corners) ==
    [i \in DOMAIN corners |->
        IF i < 2 ^ 3
        THEN [d \in Axes |-> IF Bit(i, d) THEN bbox.max[d] ELSE bbox.min[d]]
        ELSE corners[i]]

\* The points and the boxes the operations are used on: those with
\* coordinates up to MaxCoordinate, the extreme points, the invalid box and
\* the fixtures of test_aabb.cpp.
Coordinates == 0 .. MaxCoordinate

TestPoints == {Vector3(1, 2, 3), Vector3(-1, 50, 60)}

TestBoxes ==
    {AABB3(Vector3(1, 2, 3), Vector3(1, 2, 3)),
     AABB3(Vector3(1, 2, 3), Vector3(4, 5, 6)),
     AABB3(Vector3(0, 1, 5), Vector3(5, 3, 7)),
     AABB3(Vector3(7, 0, 2), Vector3(8, 3, 9)),
     AABB3(Vector3(-1, -2, -3), Vector3(4, 5, 6))}

Points ==
    [Axes -> Coordinates]
    \cup {[d \in Axes |-> NumericMax], [d \in Axes |-> -NumericMax]}
    \cup TestPoints

Boxes ==
    {b \in [min : [Axes -> Coordinates], max : [Axes -> Coordinates]] :
        is_valid(b)}
    \cup {invalid} \cup TestBoxes

\* Vector3d corners[9]; corners[8] = Sentinel
Sentinel == Vector3(12, 56, 90)

\* A box, what it is used on (a point or a box), the array its corners are
\* written to, and the operation applied with its result.
Fixtures ==
    [bbox : Boxes,
     arg : [point : Points] \cup [box : Boxes],
     corners : {[i \in 0 .. 8 |-> Sentinel]},
     op : {"none"},
     result : {None}]

\* No generator runs while a box is under test.
InitAABB ==
    /\ Members("solo", Work(0), Indices, Cardinality(Gens))
    /\ param_array \in {array \in AnyArrays :
                            \A name \in Options : array[name] = Unset}
    /\ m_params = None
    /\ scene = EmptyScene
    /\ aabb \in Fixtures

Generator ==
    <<param_array, abort_switch, mode, m_params, scene, pc, m_rng, m_arena,
      m_light_sample_count, m_path_count, m_path_length, samples,
      invocations, pending, m_generator_index, m_generator_count,
      m_sequence_index, local, sampling_context, path_visitor, tracer,
      buffer, emitted>>

\* bbox.invalidate()
aabb_invalidate ==
    /\ aabb.op = "none"
    /\ aabb' = [aabb EXCEPT !.bbox = invalidate(aabb.bbox),
                            !.op = "invalidate"]
    /\ UNCHANGED Generator

\* bbox.is_valid(), of a box as constructed or just invalidated
aabb_is_valid ==
    /\ aabb.op \in {"none", "invalidate"}
    /\ aabb' = [aabb EXCEPT
            !.op = "is_valid",
            !.result = [valid |-> is_valid(aabb.bbox), after |-> aabb.op]]
    /\ UNCHANGED Generator

\* bbox.insert(v), into a box as constructed or just invalidated
aabb_insert ==
    /\ aabb.op \in {"none", "invalidate"}
    /\ "point" \in DOMAIN aabb.arg
    /\ aabb' = [aabb EXCEPT !.bbox = insert(aabb.bbox, aabb.arg.point),
                            !.op = "insert"]
    /\ UNCHANGED Generator

\* bbox.insert(b), into a box as constructed or just invalidated
aabb_insert_bbox ==
    /\ aabb.op \in {"none", "invalidate"}
    /\ "box" \in DOMAIN aabb.arg
    /\ aabb' = [aabb EXCEPT !.bbox = insert_bbox(aabb.bbox, aabb.arg.box),
                            !.op = "insert_bbox"]
    /\ UNCHANGED Generator

\* AABB3d::overlap(bbox1, bbox2), overlap(bbox2, bbox1) and
\* overlap(bbox1, bbox1)
aabb_overlap ==
    /\ aabb.op = "none"
    /\ "box" \in DOMAIN aabb.arg
    /\ aabb' = [aabb EXCEPT
            !.op = "overlap",
            !.result = [a_b |-> overlap(aabb.bbox, aabb.arg.box),
                        b_a |-> overlap(aabb.arg.box, aabb.bbox),
                        a_a |-> overlap(aabb.bbox, aabb.bbox)]]
    /\ UNCHANGED Generator

\* bbox.compute_corners(corners)
aabb_compute_corners ==
    /\ aabb.op = "none"
    /\ aabb' = [aabb EXCEPT
            !.op = "compute_corners",
            !.corners = compute_corners(aabb.bbox, aabb.corners)]
    /\ UNCHANGED Generator

NextAABB ==
    \/ aabb_invalidate
    \/ aabb_is_valid
    \/ aabb_insert
    \/ aabb_insert_bbox
    \/ aabb_overlap
    \/ aabb_compute_corners

SpecAABB == InitAABB /\ [][NextAABB]_vars

\* ----------------------------------------------------- two runs, compared
\* Two generators created alike are given the same work and stepped
\* together, reading the same random numbers where their cursors agree.
\* The second may first have been used for an invocation and reset.
InitTwin ==
    \E n \in 1 .. MaxInvocations, w \in 0 .. 1 :
        /\ n + w <= MaxInvocations
        /\ InitState(IF w = 0 THEN "lock" ELSE "warm",
                     [g \in Gens |-> IF g = 1 THEN n ELSE n + w],
                     [g \in Gens |-> 0], 1)
        /\ Scenario(n + w)

\* The two runs start: both generators are idle, with the same work ahead
\* and the same next sequence index.
synchronize ==
    /\ mode = "warm"
    /\ At(Gens, "idle")
    /\ pending[1] = pending[2]
    /\ m_sequence_index[1] = m_sequence_index[2]
    /\ mode' = "lock"
    /\ UNCHANGED <<param_array, aabb, abort_switch, m_params, scene, pc, m_rng, m_arena,
                   m_light_sample_count,
                   m_path_count, m_path_length, samples, invocations, pending,
                   m_generator_index, m_generator_count, m_sequence_index,
                   local, sampling_context, path_visitor, tracer, buffer,
                   emitted>>

NextTwin == Next \/ synchronize

SpecTwin == InitTwin /\ [][NextTwin]_vars

\* ------------------------------------------------- two generators at work
\* Two generators of one rendering pass, created by the factory with the
\* generator indices 0 and 1, run their invocations in any interleaving and
\* store into the one accumulation buffer.
InitConc ==
    \E n \in 1 .. MaxInvocations :
        /\ InitState("free", [g \in Gens |-> IF g = 1 THEN n ELSE 1],
                     Indices, Cardinality(Gens))
        /\ ShortWalks

SpecConc == InitConc /\ [][Next]_vars

\* =================================================================== claims
\* The steps of a walk in progress
Walking == {"trace", "visit_vertex", "scatter"}

\* The particles that leave a light source
LightParticles == {"triangle", "light"}

\* ----------------------------------------------------------------------- C1
\* C1: every Sample in the list of any instance, after any sequence of
\* invocations, has m_values[3] (the fourth channel, alpha) equal to 1 and
\* its three RGB channels non-negative.
C1_SamplesWellFormed ==
    \A g \in Gens : \A i \in DOMAIN samples[g] :
        /\ samples[g][i].m_values[4] = 1
        /\ \A c \in 1 .. 3 : samples[g][i].m_values[c] >= 0

\* An invocation has appended a Sample for its light particle, converted
\* from RGB values, and one for its environment particle, converted from a
\* spectrum.
C1_Witness ==
    /\ pc[1] = "batch"
    /\ invocations[1] = 1
    /\ m_path_count[1] = 2
    /\ Len(samples[1]) >= 2
    /\ \E i \in DOMAIN samples[1] : samples[1][i].m_values[1] > 0

\* ----------------------------------------------------------------------- C3
\* C3: when an invocation of generate_samples(sequence_index, samples) has
\* returned, the count it returned is the number of Samples it appended to
\* the list: the length of the list minus its length on entry.
C3_ReturnCountsAppended ==
    \A g \in Gens :
        pc[g] \in {"batch", "stored", "idle"} =>
            local[g].ret = Len(samples[g]) - local[g].entry_size

\* An invocation that traced a light particle and an environment particle
\* has returned 2 or more: Samples of both.
C3_Witness ==
    /\ pc[1] = "batch"
    /\ m_light_sample_count[1] = 1
    /\ m_path_count[1] = 2
    /\ local[1].ret >= 2
    /\ local[1].ret = Len(samples[1])

\* ----------------------------------------------------------------------- C4
\* C4: whatever the configuration and the scene answer, a walk takes at most
\* m_max_iterations steps: its count of intersection tests never exceeds the
\* configured bound, and a walk that has spent them is about to stop.
C4_WalkBounded ==
    \A g \in Gens :
        /\ tracer[g].iterations <= m_params.m_max_iterations
        /\ pc[g] \in {"visit_vertex", "scatter"} =>
                tracer[g].iterations >= 1
        /\ pc[g] = "trace_done" => tracer[g].terminal # "none"

\* A walk with unlimited path length has been stopped by the bound on its
\* iterations after MaxIterations steps.
C4_Witness ==
    /\ pc[1] = "trace_done"
    /\ tracer[1].terminal = "depth-limited"
    /\ m_params.m_max_path_length = SizeMax
    /\ tracer[1].iterations = MaxIterations
    /\ tracer[1].path_length = FirstPathLength + MaxIterations

\* ----------------------------------------------------------------------- C5
\* C5: with rr_min_path_length configured as 0 no walk is killed by Russian
\* roulette, and with max_path_length configured as k > 0 every walk ends
\* with a path length of at most k.
C5_LengthLimits ==
    \A g \in Gens :
        /\ m_params.m_rr_min_path_length = nz(0) =>
                tracer[g].terminal # "killed"
        /\ m_params.m_rr_min_path_length = nz(0)
           /\ m_params.m_max_path_length # nz(0) =>
                /\ tracer[g].path_length <= m_params.m_max_path_length
                /\ \A i \in DOMAIN m_path_length[g] :
                        m_path_length[g][i] <= m_params.m_max_path_length

\* Without Russian roulette, a walk that had iterations left was stopped at
\* the configured path length.
C5_Witness ==
    /\ m_params.m_rr_min_path_length = nz(0)
    /\ m_params.m_max_path_length = 1
    /\ pc[1] = "trace_done"
    /\ tracer[1].terminal = "depth-limited"
    /\ tracer[1].path_length = 1
    /\ tracer[1].iterations < m_params.m_max_iterations

\* ----------------------------------------------------------------------- C6
\* C6: a call of accept_scattering returns false exactly when
\* m_enable_caustics is off and next_mode is glossy or specular, whatever
\* prev_mode is.
C6_AcceptScattering ==
    \A g \in Gens :
        tracer[g].accept # None =>
            (~tracer[g].accept.result <=>
                /\ ~m_params.m_enable_caustics
                /\ tracer[g].accept.next_mode \in {Glossy, Specular})

\* After a diffuse bounce, a glossy bounce was rejected.
C6_Witness ==
    /\ tracer[1].accept # None
    /\ tracer[1].accept.prev_mode = Diffuse
    /\ tracer[1].accept.next_mode = Glossy
    /\ ~tracer[1].accept.result

\* ----------------------------------------------------------------------- C7
\* C7: with m_enable_caustics off, a light particle of a scene whose lights
\* are enclosed by a chain of specular interfaces yields no Sample, neither
\* at its light vertex nor at a vertex of its walk.
C7_NoCaustics ==
    \A g \in Gens :
        /\ ~m_params.m_enable_caustics
        /\ scene.enclosed_lights
        /\ local[g].particle \in LightParticles
        => path_visitor[g].m_sample_count = 0

\* In such a scene the walk of a light particle was stopped at the first
\* specular interface, where the visitor had asked the BSDF.
C7_Witness ==
    /\ ~m_params.m_enable_caustics
    /\ scene.enclosed_lights
    /\ local[1].particle \in LightParticles
    /\ pc[1] = "trace_done"
    /\ tracer[1].terminal = "rejected"
    /\ tracer[1].accept.next_mode = Specular

\* ----------------------------------------------------------------------- C8
\* The callback of instance g returns in this step.
CallbackReturns(g) ==
    \/ pc[g] \in {"area_light_vertex", "non_physical_light_vertex",
                  "visit_vertex"} /\ pc'[g] # pc[g]
    \/ pc[g] = "trace" /\ tracer'[g].terminal = "escaped"

\* What the collaborators answered to the callback c at the vertex leaves
\* nothing to contribute.
NoContribution(c, vertex) ==
    \/ c.callback = "visit_environment"
    \/ c.callback = "visit_vertex" /\ vertex.m_bsdf = NoBSDF
    \/ c.camera # None /\ ~c.camera.connected
    \/ c.camera # None /\ c.camera.connected
       /\ \/ c.callback = "visit_vertex" /\ c.camera.dot_normal >= 0
          \/ c.callback = "visit_area_light_vertex"
             /\ c.camera.dot_normal >= 0
    \/ c.transmission # None /\ c.transmission.value = 0
    \/ c.bsdf # None /\ c.bsdf.bsdf_prob = 0

\* C8: a visitor callback that meets a no-contribution outcome (camera
\* connection failed, surface facing away, full occlusion, zero BSDF
\* probability, no BSDF, escape to the environment) returns normally and
\* leaves the Sample list and the visitor's sample counter as they were.
C8_NoContribution ==
    [][\A g \in Gens :
        CallbackReturns(g)
        /\ NoContribution(path_visitor'[g].last, tracer[g].vertex)
        => /\ samples'[g] = samples[g]
           /\ path_visitor'[g].m_sample_count = path_visitor[g].m_sample_count
           /\ pc'[g] \in {"trace", "scatter", "trace_done"}]_vars

\* visit_vertex has returned from a vertex whose BSDF it asked and whose
\* probability density was zero.
C8_Witness ==
    /\ pc[1] = "scatter"
    /\ path_visitor[1].last.callback = "visit_vertex"
    /\ path_visitor[1].last.bsdf # None
    /\ path_visitor[1].last.bsdf.bsdf_prob = 0

\* ----------------------------------------------------------------------- C2
\* C2: two runs of the generator with the same seed, generator index,
\* generator count, scene answers and sequence indices, stepped together,
\* never diverge: they are at the same place, have appended the same
\* sequence of Samples and have returned the same counts.
C2_Determinism ==
    mode = "lock" =>
        /\ pc[1] = pc[2]
        /\ invocations[1] > 0 =>
            /\ samples[1] = samples[2]
            /\ local[1].ret = local[2].ret
            /\ local[1].stored_sample_count = local[2].stored_sample_count

\* The second generator had been used and reset before the two runs, and
\* both runs have appended a Sample.
C2_Witness ==
    /\ mode = "lock"
    /\ invocations[2] > invocations[1]
    /\ invocations[1] > 0
    /\ pc[1] = "batch"
    /\ Len(samples[1]) > 0
    /\ local[1].ret > 0

\* ----------------------------------------------------------------------- C9
\* What instance g keeps for itself
Private(g) ==
    <<m_rng[g], m_arena[g], m_path_count[g], m_path_length[g],
      m_light_sample_count[g], samples[g], pc[g], local[g],
      sampling_context[g], path_visitor[g], tracer[g], m_sequence_index[g],
      invocations[g]>>

\* C9: under every interleaving of the invocations of two generator
\* instances, a step of one instance leaves the private state of the other
\* (random number generator, arena, path count, path lengths, processed
\* counter, Sample list) as it was: no step changes the private state of
\* both.
C9_Isolation ==
    [][\E g \in Gens : \A h \in Gens \ {g} : Private(h)' = Private(h)]_vars

\* Both instances are in the middle of a walk and have drawn random numbers.
C9_Witness ==
    /\ mode = "free"
    /\ \A g \in Gens : pc[g] \in Walking /\ m_rng[g] > 0

\* ---------------------------------------------------------------------- C10
\* C10: whatever the order and interleaving in which the instances store
\* their batches and increment the counter, once they are all idle the
\* buffer's counter is the number of invocations made and its content is
\* the Samples emitted: no increment and no Sample is lost.
C10_Accumulation ==
    At(Gens, "idle") =>
        /\ buffer.sample_count = SumOver(invocations, Gens)
        /\ buffer.samples = BagSumOver(emitted, Gens)

\* All the work is done: the first instance has stored two batches, the
\* second one, and Samples of both are in the buffer.
C10_Witness ==
    /\ mode = "free"
    /\ At(Gens, "idle")
    /\ \A g \in Gens : pending[g] = 0 /\ emitted[g] # EmptyBag
    /\ invocations[1] = 2
    /\ m_light_sample_count[1] = 1
    /\ buffer.sample_count = 3

\* ---------------------------------------------------------------------- C11
\* Where an instance is while a particle is being traced: from the
\* construction of its path tracer to the update of the path statistics.
TracingParticle ==
    {"area_light_vertex", "non_physical_light_vertex", "trace",
     "visit_vertex", "scatter", "trace_done"}

\* The terminal states of a walk
Terminals == {"escaped", "absorbed", "rejected", "killed", "depth-limited"}

\* C11: a particle trace has no cancellation point.  Whether the abort
\* signal is raised or not, the only way out of a trace is through a terminal
\* state of the walk, with the path count incremented and the path length of
\* the walk inserted in the statistics; and a trace in progress when the
\* signal is raised does get there.
C11_NoCancellationPoint ==
    /\ [][\A g \in Gens :
            pc[g] \in TracingParticle /\ pc'[g] \notin TracingParticle
            => /\ tracer[g].terminal \in Terminals
               /\ m_path_count'[g] = m_path_count[g] + 1
               /\ m_path_length'[g] =
                    Append(m_path_length[g], tracer[g].path_length)]_vars
    /\ (abort_switch /\ \E g \in Gens : pc[g] \in TracingParticle)
            ~> (\A g \in Gens : pc[g] \notin TracingParticle)

\* The abort signal was raised during a walk, which has gone on to a
\* terminal state after a bounce.
C11_Witness ==
    /\ abort_switch
    /\ pc[1] = "trace_done"
    /\ tracer[1].terminal \in Terminals
    /\ tracer[1].path_length > FirstPathLength
    /\ m_path_count[1] = 0

\* ---------------------------------------------------------------- C12
\* The positions of generate_light_sample and of the two light particle
\* generators up to the start of the walk
SamplingLight == {"light_sample", "emitting_triangle", "non_physical_light"}

\* The number of particles one invocation of generate_samples draws
ParticlesPerInvocation ==
    (IF scene.has_lights THEN 1 ELSE 0)
    + (IF m_params.m_enable_ibl /\ scene.env_edf THEN 1 ELSE 0)

\* The number of traces the invocation in progress has completed, read from
\* the position of generate_samples
TracesOfInvocation(g) ==
    IF pc[g] \in SamplingLight THEN 0
    ELSE IF pc[g] \in TracingParticle /\ local[g].particle \in LightParticles THEN 0
    ELSE IF pc[g] = "environment_sample"
            \/ (pc[g] \in TracingParticle /\ local[g].particle = "environment")
         THEN (IF scene.has_lights THEN 1 ELSE 0)
    ELSE ParticlesPerInvocation

\* The invocations of generate_samples that have returned
Returned_invocations(g) ==
    IF pc[g] \in SamplingLight \cup TracingParticle \cup {"environment_sample", "return"}
    THEN invocations[g] - 1 ELSE invocations[g]

\* C12: there is no retry.  Within one invocation of generate_samples each
\* drawn particle (at most one light particle and at most one environment
\* particle) is sampled once and its walk is started exactly once, whatever
\* the outcome: the light source is sampled only on entry of the invocation,
\* the environment only on entry or after the light particle, a walk starts
\* only from its particle's sampling, no step leads from a walk back to the
\* sampling of the same particle, and the traces completed are those of one
\* walk per particle and invocation.
C12_NoRetry ==
    /\ [](\A g \in Gens :
            m_path_count[g] =
                Returned_invocations(g) * ParticlesPerInvocation
                + (IF pc[g] \in SamplingLight \cup TracingParticle
                                  \cup {"environment_sample", "return"}
                   THEN TracesOfInvocation(g) ELSE 0))
    /\ [][\A g \in Gens :
            /\ pc'[g] = "light_sample" /\ pc[g] # "light_sample"
                    => pc[g] = "batch" /\ invocations'[g] = invocations[g] + 1
            /\ pc'[g] = "environment_sample" /\ pc[g] # "environment_sample"
                    => \/ pc[g] = "batch" /\ invocations'[g] = invocations[g] + 1
                       \/ pc[g] = "trace_done"
                            /\ local[g].particle \in LightParticles
            /\ pc'[g] \in TracingParticle /\ pc[g] \notin TracingParticle
                    => /\ pc[g] \in {"emitting_triangle", "non_physical_light",
                                     "environment_sample"}
                       /\ tracer'[g] \in {StartTrace(TRUE), StartTrace(FALSE)}
            /\ pc[g] = "trace_done" /\ pc'[g] # "trace_done"
                    => pc'[g] \in {"environment_sample", "return"}]_vars

\* An invocation has drawn and traced both particles, neither of them left a
\* sample, and generate_samples is about to return 0.
C12_Witness ==
    /\ pc[1] = "return"
    /\ scene.has_lights /\ m_params.m_enable_ibl /\ scene.env_edf
    /\ invocations[1] = 1
    /\ m_path_count[1] = 2
    /\ local[1].stored_sample_count = 0
    /\ samples[1] = <<>>

\* ---------------------------------------------------------------- C13
\* C13: the path count is the number of completed traces and the number of
\* entries of the path-length population, which holds one entry per trace,
\* the length that trace returned; the path count never decreases.  The two
\* statistics change only at the end of a trace, together: the count by one,
\* the population by the length the path tracer returned.
C13_PathStatistics ==
    /\ [](\A g \in Gens : m_path_count[g] = Len(m_path_length[g]))
    /\ [][\A g \in Gens :
            /\ m_path_count'[g] >= m_path_count[g]
            /\ \A i \in 1..Len(m_path_length[g]) :
                    /\ i \in 1..Len(m_path_length'[g])
                    /\ m_path_length'[g][i] = m_path_length[g][i]
            /\ IF pc[g] = "trace_done" /\ pc'[g] # "trace_done"
               THEN /\ m_path_count'[g] = m_path_count[g] + 1
                    /\ m_path_length'[g] =
                            Append(m_path_length[g], tracer[g].path_length)
               ELSE /\ m_path_count'[g] = m_path_count[g]
                    /\ m_path_length'[g] = m_path_length[g]]_vars

\* Two traces of different lengths have been recorded, and the instance has
\* been reset since.
C13_Witness ==
    /\ m_path_count[1] = 2
    /\ Len(m_path_length[1]) = 2
    /\ m_path_length[1][1] # m_path_length[1][2]
    /\ pc[1] = "idle"
    /\ m_rng[1] = 0

\* ---------------------------------------------------------------- C14
\* s is a prefix of t: every element of s is in t at the same index.
IsPrefix(s, t) ==
    /\ Len(s) <= Len(t)
    /\ \A i \in 1..Len(s) : t[i] = s[i]

\* The positions of generate_samples(sequence_index, samples), from after
\* its entry to its return
InInvocation ==
    SamplingLight \cup TracingParticle \cup {"environment_sample", "return"}

\* C14: the output sample list is append-only.  Every Sample in the list
\* before an invocation of generate_samples(sequence_index, samples) is in
\* it afterwards at the same index, with the same position, RGB, alpha and
\* distance; an invocation only adds elements at the end: every step of an
\* invocation, its entry and its return included, leaves the list as it is
\* or appends one Sample to it, and the list never falls below its length
\* on entry.
C14_AppendOnly ==
    /\ [](\A g \in Gens :
            pc[g] \in InInvocation => local[g].entry_size <= Len(samples[g]))
    /\ [][\A g \in Gens :
            pc[g] \in InInvocation \/ pc'[g] \in InInvocation
            => /\ IsPrefix(samples[g], samples'[g])
               /\ Len(samples'[g]) <= Len(samples[g]) + 1
               /\ pc[g] \in InInvocation /\ pc'[g] \in InInvocation
                    => local'[g].entry_size = local[g].entry_size]_vars

\* An invocation entered with a Sample in the list returns after it appended
\* another one.
C14_Witness ==
    /\ pc[1] = "return"
    /\ local[1].entry_size > 0
    /\ Len(samples[1]) > local[1].entry_size

\* ---------------------------------------------------------------- C15
\* The number of dimensions drawn from a SamplingContext so far
Drawn(ctx) == ctx.m_base_dimension + ctx.m_dimension

\* C15 as stated: each traced particle has its own SamplingContext instance;
\* the light particle and the environment particle traced in the same
\* invocation of generate_samples do not share one sampling cursor: the
\* environment particle starts on a context nothing was drawn from.
C15_ContextPerParticle ==
    \A g \in Gens :
        pc[g] = "environment_sample"
        => sampling_context[g] = SamplingContext(g, local[g].sequence_index)

\* C15 as amended: each invocation of generate_samples has its own
\* SamplingContext instance, created at the invocation's sequence index; the
\* light particle and the environment particle traced in the same invocation
\* draw from that one instance, the environment particle continuing from the
\* cursor the light particle left.  The context is only ever advanced during
\* the invocation.
C15_ContextPerInvocation ==
    /\ [](\A g \in Gens :
            /\ pc[g] \in InInvocation => sampling_context[g] # None
            /\ pc[g] = "environment_sample" /\ scene.has_lights
                => /\ Drawn(sampling_context[g]) >= 4 + 2 + 1
                   /\ sampling_context[g].m_instance
                        >= local[g].sequence_index + 3)
    /\ [][\A g \in Gens :
            /\ pc[g] = "batch" /\ pc'[g] \in InInvocation
                => sampling_context'[g] =
                        SamplingContext(g, m_sequence_index[g])
            /\ pc[g] \in InInvocation /\ pc'[g] \in InInvocation
                => /\ Drawn(sampling_context'[g]) >= Drawn(sampling_context[g])
                   /\ sampling_context'[g].m_instance
                        >= sampling_context[g].m_instance
            /\ pc[g] = "trace_done"
                => sampling_context'[g] = sampling_context[g]
                    \/ pc'[g] \notin InInvocation]_vars

\* The environment particle is about to be sampled from the context the
\* light particle of the same invocation drew from, light sample, emission,
\* camera connection and walk.
C15_Witness ==
    /\ pc[1] = "environment_sample"
    /\ scene.has_lights
    /\ m_path_count[1] = 1
    /\ m_path_length[1][1] > FirstPathLength
    /\ Drawn(sampling_context[1]) > 4 + 2 + 1 + 2

\* ---------------------------------------------------------------- C16
\* The trace of instance g has ended where it began: the particle escaped
\* the scene at its first intersection test or was absorbed at its first
\* scattering step.
EndedAtFirstStep(g) ==
    /\ pc[g] = "trace_done"
    /\ tracer[g].terminal \in {"escaped", "absorbed"}
    /\ tracer[g].iterations = 1

StoredLength(name) ==
    IF name = "max_path_length" THEN m_params.m_max_path_length
    ELSE m_params.m_rr_min_path_length

\* C17: configuration mapping.  A configured max_path_length or
\* rr_min_path_length of 0 is stored as the largest size value (unbounded)
\* and every non-zero configured value is stored unchanged; when unset,
\* max_path_length is unbounded, rr_min_path_length is 3 and max_iterations
\* is 1000.
C17_ConfigurationMapping ==
    m_params # None =>
        /\ \A name \in {"max_path_length", "rr_min_path_length"} :
                /\ param_array[name] = Value(0) => StoredLength(name) = SizeMax
                /\ param_array[name] # Unset /\ param_array[name] # Value(0)
                        => StoredLength(name) = param_array[name].value
        /\ param_array["max_path_length"] = Unset
                => m_params.m_max_path_length = SizeMax
        /\ param_array["rr_min_path_length"] = Unset
                => m_params.m_rr_min_path_length = 3
        /\ param_array["max_iterations"] = Unset
                => m_params.m_max_iterations = 1000

\* Parameters have been built from a ParamArray that sets rr_min_path_length
\* to 0, max_path_length to a non-zero value and nothing else.
C17_Witness ==
    /\ m_params # None
    /\ param_array["max_iterations"] = Unset
    /\ param_array["max_path_length"] = Value(1)
    /\ param_array["rr_min_path_length"] = Value(0)
    /\ param_array["enable_ibl"] = Unset
    /\ m_params.m_enable_ibl
    /\ m_params.m_rr_min_path_length = SizeMax

\* ---------------------------------------------------------------- C18
\* The smaller and the larger of two numbers
Smaller(a, b) == IF a <= b THEN a ELSE b

Larger(a, b) == IF a >= b THEN a ELSE b

\* C18: AABB insertion.  After insert(p) of a point, or insert(b) of a box,
\* into a valid box, the box's min is the component-wise minimum and its max
\* the component-wise maximum of the old bounds and the inserted bounds;
\* inserting into an invalid box yields exactly the inserted point
\* (min = max = p) or the inserted box: the invalid box is the identity of
\* insertion.
C18_Insertion ==
    [][/\ aabb'.op = "insert" /\ aabb.op = "none" =>
            LET p == aabb.arg.point IN
            /\ is_valid(aabb.bbox) =>
                    \A d \in Axes :
                        /\ aabb'.bbox.min[d] = Smaller(aabb.bbox.min[d], p[d])
                        /\ aabb'.bbox.max[d] = Larger(aabb.bbox.max[d], p[d])
            /\ aabb.bbox = invalid =>
                    aabb'.bbox.min = p /\ aabb'.bbox.max = p
       /\ aabb'.op = "insert_bbox" /\ aabb.op = "none" =>
            LET b == aabb.arg.box IN
            /\ is_valid(aabb.bbox) =>
                    \A d \in Axes :
                        /\ aabb'.bbox.min[d] =
                                Smaller(aabb.bbox.min[d], b.min[d])
                        /\ aabb'.bbox.max[d] =
                                Larger(aabb.bbox.max[d], b.max[d])
            /\ aabb.bbox = invalid => aabb'.bbox = b]_vars

\* TestInsertPointIntoValidAABB: the point (-1, 50, 60) has been inserted
\* into the box (1, 2, 3) - (4, 5, 6).
C18_Witness ==
    /\ aabb.op = "insert"
    /\ aabb.arg.point = Vector3(-1, 50, 60)
    /\ aabb.bbox = AABB3(Vector3(-1, 2, 3), Vector3(4, 50, 60))

\* ---------------------------------------------------------------- C19
\* C19: AABB overlap is reflexive for every valid box, including a rank-0
\* box whose min equals its max, and symmetric: overlap(a, b) =
\* overlap(b, a) for all valid boxes a and b.
C19_Overlap ==
    aabb # NoAABB /\ aabb.op = "overlap" =>
        /\ is_valid(aabb.bbox) => aabb.result.a_a
        /\ is_valid(aabb.bbox) /\ is_valid(aabb.arg.box)
                => aabb.result.a_b = aabb.result.b_a

\* A rank-0 box has been tested against itself and, both ways, against a
\* valid box apart from it.
C19_Witness ==
    /\ aabb # NoAABB /\ aabb.op = "overlap"
    /\ aabb.bbox.min = aabb.bbox.max
    /\ is_valid(aabb.arg.box)
    /\ aabb.result = [a_b |-> FALSE, b_a |-> FALSE, a_a |-> TRUE]

\* ---------------------------------------------------------------- C20
\* C20: AABB compute_corners writes exactly 8 corners, corner i taking the
\* max x when bit 0 of i is set, the max y when bit 1 is set and the max z
\* when bit 2 is set (min otherwise), and leaves any array element past the
\* eighth unchanged.
C20_ComputeCorners ==
    [][aabb'.op = "compute_corners" /\ aabb.op = "none" =>
            /\ \A i \in 0 .. 7 :
                    aabb'.corners[i] =
                        Vector3(
                            IF i % 2 = 1 THEN aabb.bbox.max[1]
                            ELSE aabb.bbox.min[1],
                            IF (i \div 2) % 2 = 1 THEN aabb.bbox.max[2]
                            ELSE aabb.bbox.min[2],
                            IF (i \div 4) % 2 = 1 THEN aabb.bbox.max[3]
                            ELSE aabb.bbox.min[3])
            /\ \A i \in DOMAIN aabb.corners :
                    i > 7 => aabb'.corners[i] = aabb.corners[i]
            /\ DOMAIN aabb'.corners = DOMAIN aabb.corners]_vars

\* TestComputeCorners: the corners of the box (-1, -2, -3) - (4, 5, 6) have
\* been written and corners[8] still holds the sentinel.
C20_Witness ==
    /\ aabb # NoAABB /\ aabb.op = "compute_corners"
    /\ aabb.bbox = AABB3(Vector3(-1, -2, -3), Vector3(4, 5, 6))
    /\ aabb.corners[0] = Vector3(-1, -2, -3)
    /\ aabb.corners[1] = Vector3(4, -2, -3)
    /\ aabb.corners[2] = Vector3(-1, 5, -3)
    /\ aabb.corners[3] = Vector3(4, 5, -3)
    /\ aabb.corners[4] = Vector3(-1, -2, 6)
    /\ aabb.corners[5] = Vector3(4, -2, 6)
    /\ aabb.corners[6] = Vector3(-1, 5, 6)
    /\ aabb.corners[7] = Vector3(4, 5, 6)
    /\ aabb.corners[8] = Sentinel

\* ---------------------------------------------------------------- C21
\* C21: AABB validity.  A box built from min and max with min <= max on
\* every axis is valid; AABB::invalid() is not valid; and after invalidate()
\* on any box, is_valid() is false until something is inserted: the
\* invalidated box is the invalid box whatever it was, and only an insertion
\* follows that leaves a valid box.
C21_Validity ==
    [][/\ aabb'.op = "is_valid" =>
            /\ aabb.op = "none"
                    /\ (\A d \in Axes : aabb.bbox.min[d] <= aabb.bbox.max[d])
                    => aabb'.result.valid
            /\ aabb.op = "none" /\ aabb.bbox = invalid
                    => ~aabb'.result.valid
            /\ aabb.op = "invalidate" => ~aabb'.result.valid
            /\ aabb'.bbox = aabb.bbox
       /\ aabb'.op = "invalidate" =>
            \E d \in Axes : aabb'.bbox.min[d] > aabb'.bbox.max[d]
       /\ aabb.op = "invalidate"
                /\ (\A d \in Axes : aabb'.bbox.min[d] <= aabb'.bbox.max[d])
            => aabb'.op \in {"insert", "insert_bbox"}]_vars

\* TestInvalidate: the box (1, 2, 3) - (4, 5, 6) has been invalidated and
\* then found invalid.
C21_Witness ==
    /\ aabb # NoAABB /\ aabb.op = "is_valid"
    /\ aabb.result = [valid |-> FALSE, after |-> "invalidate"]
    /\ aabb.arg = [box |-> AABB3(Vector3(1, 2, 3), Vector3(4, 5, 6))]

\* ---------------------------------------------------------------- C22
\* camera_outgoing points from the camera to the vertex (the visibility ray
\* starts at vertex - camera_outgoing, "from the camera"), so the direction
\* from the vertex toward the camera is -camera_outgoing; its dot product
\* with the shading normal:
TowardCamera(cam) == -cam.dot_normal

\* The callback of instance g returning in this step is one of names, and
\* its camera connection succeeded.
ConnectedReturn(g, names) ==
    /\ CallbackReturns(g)
    /\ path_visitor'[g].last.callback \in names
    /\ path_visitor'[g].last.camera # None
    /\ path_visitor'[g].last.camera.connected

\* C22 as stated: visit_vertex rejects the vertex (emits no Sample) whenever
\* the direction from the vertex toward the camera lies on the same side as
\* the vertex's shading normal, the opposite of the test in
\* visit_area_light_vertex.
C22_SameSideRejected ==
    [][\A g \in Gens :
        ConnectedReturn(g, {"visit_vertex"})
        /\ TowardCamera(path_visitor'[g].last.camera) > 0
        => samples'[g] = samples[g]]_vars

\* C22, amended: visit_vertex rejects the vertex (emits no Sample, asks no
\* further collaborator) whenever the direction from the vertex toward the
\* camera does not lie on the same side as the vertex's shading normal (its
\* dot product with the shading normal is zero or negative), and this
\* back-facing test uses the same sign convention as the one in
\* visit_area_light_vertex: either callback emits a Sample only for a
\* direction toward the camera on the side of the shading normal.
C22_BackFacing ==
    [][\A g \in Gens :
        ConnectedReturn(g, {"visit_vertex", "visit_area_light_vertex"})
        => /\ TowardCamera(path_visitor'[g].last.camera) <= 0
                => /\ samples'[g] = samples[g]
                   /\ path_visitor'[g].m_sample_count
                            = path_visitor[g].m_sample_count
                   /\ path_visitor'[g].last.queried = <<"camera">>
           /\ samples'[g] # samples[g]
                => TowardCamera(path_visitor'[g].last.camera) > 0]_vars

\* visit_vertex has returned from a vertex that faces away from the camera,
\* having asked the camera only.
C22_Witness ==
    /\ pc[1] = "scatter"
    /\ path_visitor[1].last.callback = "visit_vertex"
    /\ path_visitor[1].last.camera # None
    /\ path_visitor[1].last.camera.connected
    /\ TowardCamera(path_visitor[1].last.camera) < 0
    /\ path_visitor[1].last.queried = <<"camera">>

\* ---------------------------------------------------------------- C23
\* The emission value the sampled emitter of instance g returned
EmissionValue(g) ==
    IF local[g].particle = "triangle" THEN local[g].emission.edf_value
    ELSE local[g].emission.value

\* The probability densities the initial flux of instance g is divided by:
\* that of the emission, and for a light particle that of the light sample.
Probabilities(g) ==
    {IF local[g].particle = "triangle" THEN local[g].emission.edf_prob
     ELSE local[g].emission.prob}
    \cup (IF local[g].particle = "environment" THEN {}
          ELSE {local[g].light_sample.m_probability})

\* Instance g has sampled the emitter of its particle and given the particle
\* its flux.
Emitted(g) ==
    local[g].emission # None /\ path_visitor[g].m_initial_flux # None

\* C23: the initial particle flux is non-negative (and finite) in every
\* channel for every particle kind (emitting surface, non-physical light,
\* environment) whenever the emission value returned by the sampled emitter
\* is non-negative and the probabilities are positive; the emitting-surface
\* flux, multiplied by the cosine between the sampled emission direction and
\* the shading normal, is not negative.
C23_FluxNonNegative ==
    \A g \in Gens :
        Emitted(g)
        /\ (\A c \in 1 .. 3 : EmissionValue(g).v[c] >= 0)
        /\ (\A p \in Probabilities(g) : p > 0)
        => \A c \in 1 .. 3 :
                /\ path_visitor[g].m_initial_flux.v[c] >= 0
                /\ IsFinite(path_visitor[g].m_initial_flux.v[c])

\* The particle of an emitting triangle has been given its flux, computed
\* from positive probabilities and a positive cosine.
C23_Witness ==
    /\ Emitted(1)
    /\ local[1].particle = "triangle"
    /\ local[1].emission.cos_on > 0
    /\ \A p \in Probabilities(1) : p > 0
    /\ path_visitor[1].m_initial_flux = Spectrum(TRUE, 2, 0, 4)

SamplingEmitter ==
    {"emitting_triangle", "non_physical_light", "environment_sample"}

LightVertex == {"area_light_vertex", "non_physical_light_vertex"}

LightVertexCallbacks ==
    {"visit_area_light_vertex", "visit_non_physical_light_vertex"}

\* C25: zero-bounce ordering.  For a light particle (emitting surface or
\* non-physical light) the light-vertex callback is invoked exactly once and
\* before the path walk starts: it is entered from the sampling of the
\* particle and from nowhere else, it is the first thing the visitor does
\* and the walk starts when it returns, so that its Sample, when emitted, is
\* appended before every Sample of that particle's walk.  For an environment
\* particle the walk starts at once and neither light-vertex callback is
\* ever invoked.
C25_ZeroBounceFirst ==
    /\ [][\A g \in Gens :
            /\ pc[g] = "emitting_triangle" /\ pc'[g] # pc[g]
                    => pc'[g] = "area_light_vertex"
            /\ pc[g] = "non_physical_light" /\ pc'[g] # pc[g]
                    => pc'[g] = "non_physical_light_vertex"
            /\ pc'[g] \in LightVertex /\ pc'[g] # pc[g]
                    => /\ pc[g] \in {"emitting_triangle", "non_physical_light"}
                       /\ local'[g].particle \in LightParticles
            /\ pc[g] \in LightVertex /\ pc'[g] # pc[g]
                    => /\ pc'[g] = "trace"
                       /\ tracer[g].iterations = 0
                       /\ tracer'[g] = tracer[g]
                       /\ path_visitor[g].last = NoCallback
                       /\ path_visitor[g].m_sample_count = 0
                       /\ path_visitor'[g].last.callback
                                \in LightVertexCallbacks
                       /\ path_visitor'[g].m_sample_count = 1
                            => /\ Len(samples'[g]) = Len(samples[g]) + 1
                               /\ IsPrefix(samples[g], samples'[g])
            /\ pc[g] \in Walking /\ pc'[g] # pc[g]
                    => /\ IsPrefix(samples[g], samples'[g])
                       /\ path_visitor'[g].last.callback
                                \notin LightVertexCallbacks
            /\ pc[g] = "environment_sample" /\ pc'[g] # pc[g]
                    => pc'[g] = "trace"]_vars
    /\ [](\A g \in Gens :
            local[g].particle = "environment"
            => /\ pc[g] \notin LightVertex
               /\ path_visitor[g].last.callback \notin LightVertexCallbacks)

\* The light vertex of an emitting triangle has emitted its Sample and the
\* walk that followed has appended another.
C25_Witness ==
    /\ pc[1] = "scatter"
    /\ local[1].particle = "triangle"
    /\ path_visitor[1].last.callback = "visit_vertex"
    /\ path_visitor[1].m_sample_count = 2
    /\ Len(samples[1]) = 2

\* ---------------------------------------------------------------- C26
\* m_light_sampler.has_lights_or_emitting_triangles()
TracesLight == scene.has_lights

\* m_params.m_enable_ibl and the environment has an environment EDF
TracesEnvironment == m_params.m_enable_ibl /\ scene.env_edf

\* C26: particles per invocation.  generate_samples(sequence_index, samples)
\* traces a light particle if and only if the light sampler reports lights
\* or emitting triangles, and an environment particle if and only if
\* enable_ibl is true and the scene's environment has an environment EDF;
\* when both are traced the light particle is fully traced (its walk is at a
\* terminal state and its statistics are recorded) before the environment is
\* sampled, and when neither condition holds the invocation returns 0 and
\* appends nothing.
C26_ParticlesPerInvocation ==
    /\ [][\A g \in Gens :
            /\ invocations'[g] = invocations[g] + 1
                    => pc'[g] = IF TracesLight THEN "light_sample"
                                ELSE IF TracesEnvironment
                                THEN "environment_sample"
                                ELSE "return"
            /\ pc'[g] = "light_sample" /\ pc'[g] # pc[g]
                    => pc[g] = "batch"
            /\ pc[g] = "trace_done" /\ pc'[g] # pc[g]
                    => /\ tracer[g].terminal \in Terminals
                       /\ m_path_count'[g] = m_path_count[g] + 1
                       /\ pc'[g] = IF local[g].particle \in LightParticles
                                      /\ TracesEnvironment
                                   THEN "environment_sample"
                                   ELSE "return"
            /\ pc'[g] = "environment_sample" /\ pc'[g] # pc[g]
                    => \/ pc[g] = "batch"
                       \/ pc[g] = "trace_done"
                          /\ local[g].particle \in LightParticles
            /\ pc'[g] = "return" /\ pc'[g] # pc[g]
                    => pc[g] \in {"batch", "trace_done"}
            /\ pc[g] = "return" /\ pc'[g] # pc[g]
                    => /\ m_path_count'[g] = m_path_count[g]
                       /\ ~TracesLight /\ ~TracesEnvironment
                            => /\ local'[g].ret = 0
                               /\ Len(samples'[g]) = local[g].entry_size]_vars
    /\ [](\A g \in Gens :
            /\ local[g].particle \in LightParticles => TracesLight
            /\ pc[g] \in SamplingLight => TracesLight
            /\ local[g].particle = "environment" => TracesEnvironment
            /\ pc[g] = "environment_sample" => TracesEnvironment
            /\ ~TracesLight /\ ~TracesEnvironment
                    => /\ samples[g] = <<>>
                       /\ m_path_count[g] = 0
                       /\ pc[g] \notin TracingParticle)

\* The light particle of an invocation has been traced and the environment
\* is about to be sampled.
C26_Witness ==
    /\ pc[1] = "environment_sample"
    /\ TracesLight /\ TracesEnvironment
    /\ m_path_count[1] = 1
    /\ local[1].particle \in LightParticles
    /\ local[1].stored_sample_count > 0

\* ---------------------------------------------------------------- C27
\* The number of Samples the step appends to the list of instance g
Appended(g) == Len(samples'[g]) - Len(samples[g])

\* The collaborators answered the callback c that its vertex is seen from
\* the camera: the connection succeeded and the transmittance asked for is
\* not zero.
Seen(c) ==
    /\ c.camera # None /\ c.camera.connected
    /\ c.transmission # None /\ c.transmission.value # 0

\* C27: visit_area_light_vertex emits exactly one Sample if and only if the
\* camera connection succeeds, the dot product of the shading normal with
\* the direction toward the camera is strictly positive, and the
\* transmittance is non-zero; otherwise it emits none.  A dot product of
\* exactly 0 is rejected, and when the back-side test rejects no visibility
\* query is made.
C27_AreaLightVertex ==
    [][\A g \in Gens :
        pc[g] = "area_light_vertex" /\ pc'[g] # pc[g]
        => LET c == path_visitor'[g].last IN
           /\ c.callback = "visit_area_light_vertex"
           /\ Appended(g) \in {0, 1}
           /\ Appended(g) = 1 <=> Seen(c) /\ TowardCamera(c.camera) > 0
           /\ path_visitor'[g].m_sample_count = Appended(g)
           /\ c.camera.connected /\ TowardCamera(c.camera) = 0
                => Appended(g) = 0
           /\ c.camera.connected /\ TowardCamera(c.camera) <= 0
                => c.queried = <<"camera">> /\ c.transmission = None
           /\ c.camera.connected /\ TowardCamera(c.camera) > 0
                => c.queried = <<"camera", "tracer">>]_vars

\* The light vertex of an emitting triangle seen edge-on from the camera has
\* been rejected without a visibility query.
C27_Witness ==
    /\ pc[1] = "trace"
    /\ path_visitor[1].last.callback = "visit_area_light_vertex"
    /\ path_visitor[1].last.camera.connected
    /\ TowardCamera(path_visitor[1].last.camera) = 0
    /\ path_visitor[1].last.queried = <<"camera">>
    /\ samples[1] = <<>>

\* ---------------------------------------------------------------- C28
\* C28: visit_non_physical_light_vertex emits exactly one Sample if and only
\* if the camera connection succeeds and the transmittance is non-zero;
\* otherwise it emits none.  It applies no back-facing test: whatever the
\* direction toward the camera, a connected vertex gets its visibility
\* query, and any non-zero transmittance leads to an emitted Sample.
C28_NonPhysicalLightVertex ==
    [][\A g \in Gens :
        pc[g] = "non_physical_light_vertex" /\ pc'[g] # pc[g]
        => LET c == path_visitor'[g].last IN
           /\ c.callback = "visit_non_physical_light_vertex"
           /\ Appended(g) \in {0, 1}
           /\ Appended(g) = 1 <=> Seen(c)
           /\ path_visitor'[g].m_sample_count = Appended(g)
           /\ c.queried = IF c.camera.connected THEN <<"camera", "tracer">>
                          ELSE <<"camera">>]_vars

\* The vertex of a non-physical light has emitted a Sample although the
\* direction toward the camera has a negative dot product with the normal
\* the camera was given.
C28_Witness ==
    /\ pc[1] = "trace"
    /\ path_visitor[1].last.callback = "visit_non_physical_light_vertex"
    /\ path_visitor[1].last.camera.connected
    /\ TowardCamera(path_visitor[1].last.camera) < 0
    /\ path_visitor[1].last.transmission = [value |-> 1]
    /\ Len(samples[1]) = 1

\* ---------------------------------------------------------------- C29
\* C29: visit_vertex on a vertex that carries no scattering capability (no
\* BSDF) is a no-op: it makes no camera connection query and no visibility
\* query, does not advance the sampling context (nor the random number
\* generator under it), and leaves the output list and the sample counter
\* unchanged.
C29_NoBSDF ==
    [][\A g \in Gens :
        pc[g] = "visit_vertex" /\ pc'[g] # pc[g]
        /\ tracer[g].vertex.m_bsdf = NoBSDF
        => /\ path_visitor'[g].last
                = [NoCallback EXCEPT !.callback = "visit_vertex"]
           /\ sampling_context'[g] = sampling_context[g]
           /\ m_rng'[g] = m_rng[g]
           /\ samples'[g] = samples[g]
           /\ path_visitor'[g].m_sample_count
                    = path_visitor[g].m_sample_count]_vars

\* visit_vertex has returned from a vertex without BSDF, having asked no
\* collaborator.
C29_Witness ==
    /\ pc[1] = "scatter"
    /\ tracer[1].vertex # None
    /\ tracer[1].vertex.m_bsdf = NoBSDF
    /\ path_visitor[1].last.callback = "visit_vertex"
    /\ path_visitor[1].last.queried = <<>>

\* ---------------------------------------------------------------- C30
\* C30: visit_vertex emits at most one Sample per call, and only after these
\* checks pass in this order: BSDF present, camera connection succeeds,
\* back-facing test passes, transmittance non-zero, evaluated BSDF
\* probability non-zero.  A failing check stops the callback, so that no
\* later collaborator (visibility evaluator, BSDF evaluation) is queried.
C30_VisitVertex ==
    [][\A g \in Gens :
        pc[g] = "visit_vertex" /\ pc'[g] # pc[g]
        => LET c == path_visitor'[g].last
               present == tracer[g].vertex.m_bsdf # NoBSDF
               connected == present /\ c.camera.connected
               facing == connected /\ c.camera.dot_normal < 0
               visible == facing /\ c.transmission.value # 0
               scattered == visible /\ c.bsdf.bsdf_prob # 0
           IN
           /\ c.callback = "visit_vertex"
           /\ Appended(g) \in {0, 1}
           /\ Appended(g) = 1 <=> scattered
           /\ c.queried =
                IF ~present THEN <<>>
                ELSE IF ~facing THEN <<"camera">>
                ELSE IF ~visible THEN <<"camera", "tracer">>
                ELSE <<"camera", "tracer", "bsdf">>
           /\ ~present => c.camera = None
           /\ ~facing => c.transmission = None
           /\ ~visible => c.bsdf = None]_vars

\* visit_vertex has returned from an occluded vertex that faces the camera:
\* the tracer was the last collaborator it asked.
C30_Witness ==
    /\ pc[1] = "scatter"
    /\ path_visitor[1].last.callback = "visit_vertex"
    /\ path_visitor[1].last.queried = <<"camera", "tracer">>
    /\ path_visitor[1].last.transmission = [value |-> 0]
    /\ path_visitor[1].last.bsdf = None

\* ---------------------------------------------------------------- C31
\* Instance g enters generate_samples(sequence_index, samples) in this step.
Enters(g) == invocations'[g] = invocations[g] + 1

\* C31: the scratch arena is cleared as the first action of every
\* generate_samples(sequence_index, samples) invocation, before the sampling
\* context is created and before any light sampling or shading: when the
\* invocation has built its sampling context, and nothing has been drawn
\* from it or sampled yet, the arena is empty; the arena is then only
\* allocated from, inside the invocation.  So at the start of each unit of
\* work the arena holds no allocation made by a previous unit of work.
C31_ArenaCleared ==
    /\ [][\A g \in Gens :
            /\ Enters(g)
                => /\ m_arena'[g] = 0
                   /\ Drawn(sampling_context'[g]) = 0
                   /\ m_rng'[g] = m_rng[g]
                   /\ local'[g].light_sample = None
                   /\ local'[g].emission = None
            /\ ~Enters(g) /\ m_arena'[g] # m_arena[g]
                => /\ m_arena'[g] = m_arena[g] + 1
                   /\ pc[g] \in InInvocation]_vars
    /\ [](\A g \in Gens :
            pc[g] = "light_sample"
            \/ (pc[g] = "environment_sample" /\ ~scene.has_lights)
            => m_arena[g] = 0)

\* The second unit of work of an instance starts with an empty arena, after
\* a first unit that traced a particle.
C31_Witness ==
    /\ invocations[1] = 2
    /\ pc[1] = "light_sample"
    /\ m_path_count[1] = 1
    /\ m_arena[1] = 0

\* ---------------------------------------------------------------- C32
\* The first intersection test of the walk of instance g reported a hit on
\* the surface its ray started from.
SelfHit(g) == tracer[g].vertex # None /\ tracer[g].vertex.self

\* C32: only an emitting-surface particle is traced with a shading point to
\* exclude: the walk of an emitting-triangle particle is entered with the
\* parent shading point built on the light sample, the walks of
\* non-physical-light and environment particles with none; and with
\* report_self_intersections off the first intersection test of an
\* emitting-triangle particle never reports a hit on the emitting surface
\* itself.
C32_ParentShadingPoint ==
    \A g \in Gens :
        /\ pc[g] = "trace" /\ tracer[g].iterations = 0
            => (tracer[g].parent_shading_point
                    <=> local[g].particle = "triangle")
        /\ pc[g] \in Walking \cup {"trace_done"}
           /\ tracer[g].parent_shading_point
            => local[g].particle = "triangle"
        /\ SelfHit(g) => m_params.m_report_self_intersections

\* The light ray of an emitting-triangle particle hit another surface, with
\* report_self_intersections off.
C32_Witness ==
    /\ pc[1] = "visit_vertex"
    /\ local[1].particle = "triangle"
    /\ tracer[1].iterations = 1
    /\ tracer[1].parent_shading_point
    /\ ~m_params.m_report_self_intersections
    /\ ~SelfHit(1)

\* ---------------------------------------------------------------- C33
\* The assertion of accept_scattering on the call the walk of instance g
\* made at its current vertex, if it made one.
AcceptAssertion(g) ==
    tracer[g].accept # None => tracer[g].accept.next_mode # Absorption

\* C33: the assertion in accept_scattering holds in every reachable state:
\* the walk never calls accept_scattering with next_mode equal to
\* Absorption, because a walk that ends absorbed (an absorption or a
\* zero-probability scattering sample) ends before the visitor is asked.
C33_AcceptScatteringAsserted ==
    \A g \in Gens :
        /\ AcceptAssertion(g)
        /\ tracer[g].accept # None
            => tracer[g].accept.next_mode \in ScatteringModes
        /\ tracer[g].terminal = "absorbed" => tracer[g].accept = None

\* The visitor was asked about a glossy scattering and rejected it.
C33_Witness ==
    /\ tracer[1].terminal = "rejected"
    /\ tracer[1].accept # None
    /\ tracer[1].accept.next_mode = Glossy
    /\ ~tracer[1].accept.result

\* ---------------------------------------------------------------- C34
\* The walk of instance g was ended by Russian roulette.
Killed(g) == tracer[g].terminal = "killed"

\* C34: Russian roulette is applied only to a path whose current length is
\* at least the configured rr_min_path_length: no walk ends killed by the
\* roulette while its path length is below that minimum, and with
\* rr_min_path_length unbounded no walk ever ends killed.
C34_RouletteFromMinimum ==
    \A g \in Gens :
        Killed(g) =>
            /\ tracer[g].path_length >= m_params.m_rr_min_path_length
            /\ m_params.m_rr_min_path_length # SizeMax
            /\ param_array.rr_min_path_length # Value(0)

\* A walk survived its first vertex, below the minimum of 2, and was
\* killed at its second vertex.
C34_Witness ==
    /\ Killed(1)
    /\ m_params.m_rr_min_path_length = FirstPathLength + 1
    /\ tracer[1].path_length = 2
    /\ tracer[1].iterations = 2

\* ---------------------------------------------------------------- C35
\* Instance g enters, or leaves, the batch entry point
\* generate_samples(sample_count, buffer, abort_switch) in this step.
EntersBatch(g) == pc[g] = "idle" /\ pc'[g] = "batch"

LeavesBatch(g) == pc[g] = "stored" /\ pc'[g] = "idle"

\* Instance g returns from generate_samples(sequence_index, samples).
Returns(g) == pc[g] = "return" /\ pc'[g] = "batch"

\* The invocations of its current batch that instance g has entered: those
\* it has counted, and the one in progress.
BatchInvocations(g) ==
    IF pc[g] = "idle" THEN 0
    ELSE m_light_sample_count[g]
         + (IF pc[g] \in InInvocation THEN 1 ELSE 0)

\* What the instances leaving their batch in this step add to the buffer's
\* counter
HandedOff ==
    SumOver([g \in Gens |->
                IF LeavesBatch(g) THEN m_light_sample_count[g] ELSE 0], Gens)

\* C35: each call of the batch entry point resets the private light-sample
\* counter to 0; each invocation of the batch adds 1 to it on its return,
\* whatever particles it traced and whatever number of samples it produced,
\* and nothing else changes it; at the end of the batch the counter is added
\* to the buffer's counter.  So the buffer's counter and the counts of the
\* batches in progress always add up to the number of invocations made: a
\* batch adds exactly the number of its invocations.
C35_CounterHandOff ==
    /\ [][/\ \A g \in Gens :
                /\ EntersBatch(g) => m_light_sample_count'[g] = 0
                /\ Returns(g) =>
                        m_light_sample_count'[g] = m_light_sample_count[g] + 1
                /\ m_light_sample_count'[g] # m_light_sample_count[g]
                        => EntersBatch(g) \/ Returns(g)
            /\ buffer'.sample_count = buffer.sample_count + HandedOff]_vars
    /\ [](SumOver(invocations, Gens) =
            buffer.sample_count
            + SumOver([g \in Gens |-> BatchInvocations(g)], Gens))

\* A second batch of one invocation has ended, after a first batch of one
\* invocation: each added 1 to the buffer's counter.
C35_Witness ==
    /\ pc[1] = "idle"
    /\ invocations[1] = 2
    /\ m_light_sample_count[1] = 1
    /\ buffer.sample_count = 2

\* ---------------------------------------------------------------- C36
\* SamplingContext::RNGType(): the default-constructed generator, as the
\* constructor of the sample generator leaves m_rng
DefaultRNG == 0

\* What reset() writes of instance g
ResetState(g) == <<m_rng[g], m_sequence_index[g]>>

\* A call of reset() on instance g changes it in this step.
Resets(g) ==
    /\ pc[g] = "idle" /\ pc'[g] = "idle"
    /\ ResetState(g)' # ResetState(g)

\* C36: reset() puts the generator's RNG back in its default-constructed
\* initial state, whatever state it was in, and a reset() changes nothing
\* else that an invocation reads; the state it leaves does not depend on the
\* state it finds, so a second reset() in a row changes nothing.  After
\* reset(), a sequence of invocations goes, draw for draw and Sample for
\* Sample, as the same sequence on a freshly constructed generator with the
\* same parameters.
C36_ResetRNG ==
    /\ [][\A g \in Gens :
            Resets(g) =>
                /\ ResetState(g)' = <<DefaultRNG, m_generator_index[g]>>
                /\ UNCHANGED <<m_arena[g], m_light_sample_count[g],
                               samples[g], local[g], sampling_context[g],
                               path_visitor[g], tracer[g]>>]_vars
    /\ [](mode = "lock" =>
            /\ m_rng[1] = m_rng[2]
            /\ sampling_context[1] = sampling_context[2]
            /\ pc[1] # "idle" => samples[1] = samples[2]
            /\ path_visitor[1] = path_visitor[2]
            /\ tracer[1] = tracer[2])

\* The second generator had been used for an invocation and reset; it and a
\* fresh generator have then drawn the same random numbers and appended the
\* same Samples.
C36_Witness ==
    /\ mode = "lock"
    /\ invocations[2] = invocations[1] + 1
    /\ invocations[1] > 0
    /\ m_rng[2] > DefaultRNG
    /\ m_rng[1] = m_rng[2]
    /\ m_path_count[2] > m_path_count[1]
    /\ Len(samples[2]) > 0
    /\ samples[1] = samples[2]

\* ---------------------------------------------------------------- C37
\* Instance g samples the light sources, the emission of the emitter it
\* selected, or the environment, in this step.
LightDraw(g) == pc[g] = "light_sample" /\ pc'[g] # pc[g]

EmissionDraw(g) ==
    pc[g] \in {"emitting_triangle", "non_physical_light"} /\ pc'[g] # pc[g]

EnvironmentDraw(g) == pc[g] = "environment_sample" /\ pc'[g] # pc[g]

\* The context after draws of the dimensions dims, in this order, from ctx:
\* each draw starts where the one before it ended.
AfterDraws(ctx, dims) ==
    [m_base_dimension |-> Drawn(ctx) + SumOver(dims, DOMAIN dims)
                            - dims[Len(dims)],
     m_dimension |-> dims[Len(dims)],
     m_sample_count |-> 1,
     m_instance |-> ctx.m_instance + Len(dims)]

\* C37: within one invocation the generator only advances the sampling
\* context, never rewinds it, and its own draws occur in a fixed order and
\* dimension: for a light particle one 4-dimensional draw, the first of the
\* invocation, then one 2-dimensional draw for the emission, then one
\* 1-dimensional draw for the ray time; for an environment particle one
\* 2-dimensional draw for the direction, one 2-dimensional draw for the disk
\* point, then one 1-dimensional draw for the ray time.
C37_DrawSequence ==
    /\ [][\A g \in Gens :
            /\ LightDraw(g) =>
                /\ Drawn(sampling_context[g]) = 0
                /\ sampling_context'[g] =
                        AfterDraws(sampling_context[g], <<4>>)
            /\ EmissionDraw(g) =>
                /\ sampling_context[g].m_dimension = 4
                /\ sampling_context'[g] =
                        AfterDraws(sampling_context[g], <<2, 1>>)
            /\ EnvironmentDraw(g) =>
                sampling_context'[g] =
                        AfterDraws(sampling_context[g], <<2, 2, 1>>)
            /\ sampling_context[g] # None /\ sampling_context'[g] # None =>
                /\ sampling_context'[g].m_base_dimension
                        >= sampling_context[g].m_base_dimension
                /\ Drawn(sampling_context'[g]) >= Drawn(sampling_context[g])
                /\ sampling_context'[g].m_instance
                        >= sampling_context[g].m_instance]_vars
    /\ [](\A g \in Gens :
            pc[g] \in {"emitting_triangle", "non_physical_light"} =>
                sampling_context[g] =
                    [m_base_dimension |-> 0, m_dimension |-> 4,
                     m_sample_count |-> 1,
                     m_instance |-> local[g].sequence_index + 1])

\* The environment particle of an invocation that traced a light particle
\* has been sampled: its ray time was the last draw, after the 4 + 2 + 1
\* dimensions of the light particle and its own 2 + 2.
C37_Witness ==
    /\ pc[1] = "trace"
    /\ local[1].particle = "environment"
    /\ m_path_count[1] = 1
    /\ tracer[1].iterations = 0
    /\ sampling_context[1].m_dimension = 1
    /\ sampling_context[1].m_base_dimension >= 4 + 2 + 1 + 2 + 2

====
